---- MODULE Spec2Model ----
(***************************************************************************)
(* ManifoldMarketManager: the resolution-value protocol (Rule.value), the  *)
(* Market orchestration (should_resolve, resolve_to, resolve, cancel) with *)
(* its worker-pool dispatch (caching.parallel), and the scan pass of the   *)
(* runner (application.main, application.watch_reply).                      *)
(*                                                                         *)
(* Python values are tagged records.  Floats are exact rationals in lowest *)
(* terms (num/den), so that 25.0 and 25 are different values that compare  *)
(* equal numerically, as in Python.  Strings are sequences of one-letter   *)
(* strings so that float(str) and int(str) are computed from the digits.   *)
(* A Python call evaluates to Return(v) or to Raise(exc, args).            *)
(***************************************************************************)
EXTENDS Integers, Sequences, FiniteSets, TLC

VARIABLES
    vRule,      \* the rule whose value() is being asked for
    vFormat,    \* the requested shape (the `format` argument)
    vMarket,    \* the market argument handed to value()
    vResult     \* which value() implementation ran, and its outcome

valueVars == <<vRule, vFormat, vMarket, vResult>>

VARIABLES
    mkt,        \* the Market object: the API market's outcomeType and isResolved,
                \* and the two rule lists
    CACHE,      \* caching.CACHE: TRUE dispatches to the worker pool, FALSE defers
    op,         \* the Market method the main thread is in ("none" before the call)
    given,      \* what a call of resolve or cancel was given: the override, and
                \* what its environment and the service answer
    pc,         \* "idle", "collect" (blocking on the futures in turn) or "done"
    futures,    \* the futures made by parallel(), in list order
    idx,        \* the future the main thread blocks on next
    completed,  \* the indices of the futures the pool has finished, in that order
    result,     \* how the call ended: Return(v), Raise(exc, args), or nothing yet
    log         \* the events emitted and the external calls made by the call

marketVars == <<mkt, CACHE, op, given, pc, futures, idx, completed, result, log>>

VARIABLES
    table,      \* the rows of the `markets` table: id -> market, check_rate, last_checked
    now,        \* datetime.now(), in hours
    scan,       \* where main() is: idle, or in its loop over the rows it selected
    seen        \* what the last iteration of the loop did with its row

scanVars == <<table, now, scan, seen>>

VARIABLES
    gen,        \* random.Random: for every seed, the raw draws of a generator seeded with it
    objs,       \* the rule objects under evaluation, with the fields _value writes
    returned,   \* for every object, the outcomes of its evaluations so far
    api         \* what the service answers: the referenced market, and the pool and
                \* the answers of the market evaluated

randomVars == <<gen, objs, returned, api>>

VARIABLES
    tz          \* the UTC offset of the local time zone, in hours: datetime.now() reads
                \* `now`, datetime.now(timezone.utc) is the same instant `tz` hours off

clockVars == <<tz>>

VARIABLES
    monotonic,          \* time_monotonic(), in ticks of 15 seconds
    time_cache_state,   \* util.time_cache_state: key -> (cached_value, cached_time)
    http,               \* the response requests_cache holds for the GET of the
                        \* referenced market, and when it was stored
    lookups             \* the calls of the memoized _value so far, in order

cacheVars == <<monotonic, time_cache_state, http, lookups>>

VARIABLES
    state,      \* application.state: the State object, with last_response and last_text
    tg,         \* where tg_main is, the callback queries its handler has taken since
                \* it was called, and what it returned
    chat        \* the chat: the keyboard under every message sent, and the callback
                \* queries of pressed buttons that are on their way to the bot

dialogVars == <<state, tg, chat>>

-----------------------------------------------------------------------------
(* Bounds of the model *)

\* longest list / mapping given to the coercion protocol as a raw value
MaxLen == 2
\* largest weight of an entry of a raw mapping
MaxWeight == 2
\* longest rule list of a market
MaxRules == 3
\* the last hour of the clock
MaxTime == 2

-----------------------------------------------------------------------------
(* Python values *)

None == [tag |-> "None"]
BoolV(b) == [tag |-> "bool", b |-> b]
IntV(n) == [tag |-> "int", n |-> n]
StrV(chars) == [tag |-> "str", chars |-> chars]
ListV(items) == [tag |-> "list", items |-> items]
DictV(pairs) == [tag |-> "dict", pairs |-> pairs]
ObjectV == [tag |-> "object"]

RECURSIVE GCD(_, _)
GCD(a, b) == IF b = 0 THEN a ELSE GCD(b, a % b)

Abs(n) == IF n < 0 THEN -n ELSE n

\* a float, kept as the rational num/den in lowest terms with den > 0
FloatV(num, den) ==
    LET g == GCD(Abs(num), den)
    IN  [tag |-> "float", num |-> num \div g, den |-> den \div g]

CANCEL == StrV(<<"C", "A", "N", "C", "E", "L">>)

Return(v) == [kind |-> "return", val |-> v]
Raise(exc, args) == [kind |-> "raise", exc |-> exc, args |-> args]

\* isinstance(v, (int, float)): bool is a subclass of int
IsNumber(v) == v.tag \in {"bool", "int", "float"}
\* isinstance(v, Sequence)
IsSequence(v) == v.tag \in {"str", "list"}
\* isinstance(v, Mapping)
IsMapping(v) == v.tag = "dict"
\* isinstance(v, Iterable)
IsIterable(v) == v.tag \in {"str", "list", "dict"}

\* len(v) of a sized value
PyLen(v) ==
    CASE v.tag = "str" -> Len(v.chars)
      [] v.tag = "list" -> Len(v.items)
      [] v.tag = "dict" -> Len(v.pairs)

\* the numerator and denominator of a number
NumOf(v) ==
    CASE v.tag = "bool" -> IF v.b THEN 1 ELSE 0
      [] v.tag = "int" -> v.n
      [] v.tag = "float" -> v.num
DenOf(v) == IF v.tag = "float" THEN v.den ELSE 1

\* Python's == between two numbers (25.0 == 25, True == 1)
NumEq(a, b) == NumOf(a) * DenOf(b) = NumOf(b) * DenOf(a)

\* Python's == as used on dict keys: numbers numerically, the rest structurally
PyEq(a, b) == IF IsNumber(a) /\ IsNumber(b) THEN NumEq(a, b) ELSE a = b

\* a / b on two numbers, b not zero: always a float
FDiv(a, b) ==
    IF NumOf(b) > 0 THEN FloatV(NumOf(a) * DenOf(b), DenOf(a) * NumOf(b))
    ELSE FloatV(-(NumOf(a) * DenOf(b)), DenOf(a) * (-NumOf(b)))
\* a - b, a + b and a * b where one operand is a float
FSub(a, b) == FloatV(NumOf(a) * DenOf(b) - NumOf(b) * DenOf(a), DenOf(a) * DenOf(b))
FAdd(a, b) == FloatV(NumOf(a) * DenOf(b) + NumOf(b) * DenOf(a), DenOf(a) * DenOf(b))
FMul(a, b) == FloatV(NumOf(a) * NumOf(b), DenOf(a) * DenOf(b))
\* a < b on two numbers
NumLess(a, b) == NumOf(a) * DenOf(b) < NumOf(b) * DenOf(a)

\* bool(v)
Truthy(v) ==
    CASE v.tag = "None" -> FALSE
      [] v.tag = "bool" -> v.b
      [] v.tag \in {"int", "float"} -> NumOf(v) # 0
      [] v.tag \in {"str", "list", "dict"} -> PyLen(v) > 0
      [] OTHER -> TRUE

-----------------------------------------------------------------------------
(* float(str) and int(...) *)

Digits == <<"0", "1", "2", "3", "4", "5", "6", "7", "8", "9">>
IsDigit(c) == \E i \in 1..Len(Digits) : Digits[i] = c
DigitVal(c) == (CHOOSE i \in 1..Len(Digits) : Digits[i] = c) - 1

RECURSIVE DigitsToNat(_)
DigitsToNat(cs) ==
    IF cs = <<>> THEN 0
    ELSE 10 * DigitsToNat(SubSeq(cs, 1, Len(cs) - 1)) + DigitVal(cs[Len(cs)])

RECURSIVE Pow10(_)
Pow10(n) == IF n = 0 THEN 1 ELSE 10 * Pow10(n - 1)

AllDigits(cs) == \A i \in 1..Len(cs) : IsDigit(cs[i])

\* the text without its leading sign, and the sign
Unsigned(cs) == IF cs # <<>> /\ cs[1] \in {"-", "+"} THEN Tail(cs) ELSE cs
SignOf(cs) == IF cs # <<>> /\ cs[1] = "-" THEN -1 ELSE 1

\* int("..."): an optional sign and at least one digit, or ValueError.
\* (Texts with blanks, underscores or exponents are outside the model.)
IntOfStr(cs) ==
    LET body == Unsigned(cs)
    IN  IF body # <<>> /\ AllDigits(body)
        THEN Return(IntV(SignOf(cs) * DigitsToNat(body)))
        ELSE Raise("ValueError", <<>>)

\* float("..."): an optional sign, digits with at most one point and at least
\* one digit, or ValueError.
FloatOfStr(cs) ==
    LET body == Unsigned(cs)
        dots == {i \in 1..Len(body) : body[i] = "."}
    IN  IF dots = {}
        THEN IF body # <<>> /\ AllDigits(body)
             THEN Return(FloatV(SignOf(cs) * DigitsToNat(body), 1))
             ELSE Raise("ValueError", <<>>)
        ELSE LET d == CHOOSE i \in dots : TRUE
                 whole == SubSeq(body, 1, d - 1)
                 frac == SubSeq(body, d + 1, Len(body))
             IN  IF Cardinality(dots) = 1 /\ AllDigits(whole) /\ AllDigits(frac)
                    /\ Len(whole) + Len(frac) > 0
                 THEN Return(FloatV(SignOf(cs) * DigitsToNat(whole \o frac), Pow10(Len(frac))))
                 ELSE Raise("ValueError", <<>>)

\* float.is_integer()
is_integer(f) == f.den = 1

\* int(v): identity on ints, 0/1 on bools, truncation toward zero on floats,
\* parsing on strings, TypeError on everything else
PyInt(v) ==
    CASE v.tag = "int" -> Return(v)
      [] v.tag = "bool" -> Return(IntV(NumOf(v)))
      [] v.tag = "float" ->
            Return(IntV(IF v.num >= 0 THEN v.num \div v.den ELSE -((-v.num) \div v.den)))
      [] v.tag = "str" -> IntOfStr(v.chars)
      [] OTHER -> Raise("TypeError", <<>>)

-----------------------------------------------------------------------------
(* consts.Outcome and the dict helpers *)

OUTCOMES == {"BINARY", "FREE_RESPONSE", "PSEUDO_NUMERIC", "MULTIPLE_CHOICE"}
BINARY_LIKE == {"BINARY", "PSEUDO_NUMERIC"}
MC_LIKE == {"FREE_RESPONSE", "MULTIPLE_CHOICE"}

\* what the name `format` denotes inside Rule.__binary_value and
\* Rule.__multiple_choice_value, which have no parameter of that name: the
\* builtin function
BuiltinFormat == "<built-in function format>"

\* d[key] = val on a dict kept as its sequence of <<key, value>> pairs: an equal
\* key keeps its place and takes the new value, a new key goes last
RECURSIVE DictSet(_, _, _)
DictSet(pairs, key, val) ==
    IF pairs = <<>> THEN << <<key, val>> >>
    ELSE IF PyEq(Head(pairs)[1], key)
         THEN << <<Head(pairs)[1], val>> >> \o Tail(pairs)
         ELSE <<Head(pairs)>> \o DictSet(Tail(pairs), key, val)

\* {int(val): share for val, share in ret.items()}, started from `acc`: the
\* first int() that fails ends the comprehension with its error
RECURSIVE IntKeys(_, _)
IntKeys(pairs, acc) ==
    IF pairs = <<>> THEN Return(DictV(acc))
    ELSE LET k == PyInt(Head(pairs)[1])
         IN  IF k.kind = "raise" THEN k
             ELSE IntKeys(Tail(pairs), DictSet(acc, k.val, Head(pairs)[2]))

\* {int(val): 1 for val in ret}
RECURSIVE IntKeysOfItems(_, _)
IntKeysOfItems(items, acc) ==
    IF items = <<>> THEN Return(DictV(acc))
    ELSE LET k == PyInt(Head(items))
         IN  IF k.kind = "raise" THEN k
             ELSE IntKeysOfItems(Tail(items), DictSet(acc, k.val, IntV(1)))

\* sum(answers.values()) over numbers, as the pair <<numerator, denominator>>
RECURSIVE SumWeights(_)
SumWeights(pairs) ==
    IF pairs = <<>> THEN <<0, 1>>
    ELSE LET rest == SumWeights(Tail(pairs))
             w == Head(pairs)[2]
         IN  <<NumOf(w) * rest[2] + rest[1] * DenOf(w), DenOf(w) * rest[2]>>

\* normalize_mapping dividing by the number of entries instead of their total
normalize_mapping_ByCount(answers) ==
    IF answers.pairs = <<>> THEN Return(DictV(<<>>))
    ELSE Return(DictV([i \in 1..Len(answers.pairs) |->
            <<answers.pairs[i][1],
              FloatV(NumOf(answers.pairs[i][2]),
                     DenOf(answers.pairs[i][2]) * Len(answers.pairs))>>]))

\* util.normalize_mapping: every weight divided by the total.  The division is
\* Python's true division, so the weights come back as floats, and a zero total
\* of a non-empty mapping is a ZeroDivisionError.
normalize_mapping(answers) ==
    LET total == SumWeights(answers.pairs)
    IN  IF answers.pairs # <<>> /\ total[1] = 0
        THEN Raise("ZeroDivisionError", <<>>)
        ELSE Return(DictV([i \in 1..Len(answers.pairs) |->
                <<answers.pairs[i][1],
                  FloatV(NumOf(answers.pairs[i][2]) * total[2],
                         DenOf(answers.pairs[i][2]) * total[1])>>]))

-----------------------------------------------------------------------------
(* Rules and their raw values *)

ResolveToValue(v) == [kind |-> "ResolveToValue", resolve_value |-> v]
ModulusRule(r1, r2) == [kind |-> "ModulusRule", rule1 |-> r1, rule2 |-> r2]

\* val1 % val2 on two numbers, the second one positive (the operands of the
\* model are never negative): an int if both are ints, else a float; any other
\* operand type is a TypeError
PyMod(a, b) ==
    IF ~(IsNumber(a) /\ IsNumber(b)) THEN Raise("TypeError", <<>>)
    ELSE IF NumOf(b) = 0 THEN Raise("ZeroDivisionError", <<>>)
    ELSE IF a.tag # "float" /\ b.tag # "float"
         THEN Return(IntV(NumOf(a) % NumOf(b)))
         ELSE Return(FloatV((NumOf(a) * DenOf(b)) % (NumOf(b) * DenOf(a)),
                            DenOf(a) * DenOf(b)))

AdditiveRule(rules) == [kind |-> "AdditiveRule", rules |-> rules]
MultiplicitiveRule(rules) == [kind |-> "MultiplicitiveRule", rules |-> rules]
ResolveMultipleValues(shares) == [kind |-> "ResolveMultipleValues", shares |-> shares]
FibonacciValueRule(exclude, min_rewarded) ==
    [kind |-> "FibonacciValueRule", exclude |-> exclude, min_rewarded |-> min_rewarded]
\* cls(rule1, rule2) of a subclass of BinaryRule
BinaryRule(cls, r1, r2) == [kind |-> cls, rule1 |-> r1, rule2 |-> r2]

\* the boolean rules of rule/generic/time.py
BooleanRules ==
    {"EitherRule", "BothRule", "NANDRule", "NeitherRule", "XORRule", "XNORRule", "ImpliesRule"}

\* ret + val on Python values: an int if neither is a float, else a float; an
\* operand that is no number (None) is a TypeError
PyAdd(a, b) ==
    IF ~(IsNumber(a) /\ IsNumber(b)) THEN Raise("TypeError", <<>>)
    ELSE IF a.tag # "float" /\ b.tag # "float"
         THEN Return(IntV(NumOf(a) + NumOf(b)))
         ELSE Return(FloatV(NumOf(a) * DenOf(b) + NumOf(b) * DenOf(a), DenOf(a) * DenOf(b)))

\* ret * val on Python values, typed as PyAdd
PyMul(a, b) ==
    IF ~(IsNumber(a) /\ IsNumber(b)) THEN Raise("TypeError", <<>>)
    ELSE IF a.tag # "float" /\ b.tag # "float"
         THEN Return(IntV(NumOf(a) * NumOf(b)))
         ELSE Return(FloatV(NumOf(a) * NumOf(b), DenOf(a) * DenOf(b)))

RECURSIVE RawValue(_, _)
RECURSIVE value(_, _, _)
RECURSIVE AdditiveRule_value(_, _, _, _)
RECURSIVE MultiplicitiveRule_value(_, _, _, _)

\* AdditiveRule._value whose loop does not look for "CANCEL"
AdditiveRule_value_NoCancel(rules, market, i, acc) ==
    IF i > Len(rules) THEN Return(acc)
    ELSE LET val == value(rules[i], market, "PSEUDO_NUMERIC")
         IN  IF val.kind = "raise" THEN val
             ELSE LET sum == PyAdd(acc, val.val)
                  IN  IF sum.kind = "raise" THEN sum
                      ELSE AdditiveRule_value(rules, market, i + 1, sum.val)

\* AdditiveRule._value from child i on, acc being the running `ret` (0 at the
\* start): "CANCEL" at the first child that cancels, else ret += val
AdditiveRule_value(rules, market, i, acc) ==
    IF i > Len(rules) THEN Return(acc)
    ELSE LET val == value(rules[i], market, "PSEUDO_NUMERIC")
         IN  IF val.kind = "raise" THEN val
             ELSE IF val.val = CANCEL THEN Return(CANCEL)
             ELSE LET sum == PyAdd(acc, val.val)
                  IN  IF sum.kind = "raise" THEN sum
                      ELSE AdditiveRule_value(rules, market, i + 1, sum.val)

\* MultiplicitiveRule._value from child i on, acc being the running `ret` (0 at
\* the start, as in the source): "CANCEL" at the first child that cancels, else
\* ret *= val
MultiplicitiveRule_value(rules, market, i, acc) ==
    IF i > Len(rules) THEN Return(acc)
    ELSE LET val == value(rules[i], market, "PSEUDO_NUMERIC")
         IN  IF val.kind = "raise" THEN val
             ELSE IF val.val = CANCEL THEN Return(CANCEL)
             ELSE LET prod == PyMul(acc, val.val)
                  IN  IF prod.kind = "raise" THEN prod
                      ELSE MultiplicitiveRule_value(rules, market, i + 1, prod.val)

\* ModulusRule._value: the two children's raw values, "CANCEL" if either is,
\* else val1 % val2
ModulusRule_value(rule, market) ==
    LET val1 == RawValue(rule.rule1, market)
        val2 == RawValue(rule.rule2, market)
    IN  IF val1.kind = "raise" THEN val1
        ELSE IF val2.kind = "raise" THEN val2
        ELSE IF val1.val = CANCEL \/ val2.val = CANCEL THEN Return(CANCEL)
        ELSE PyMod(val1.val, val2.val)

\* the expression a boolean rule returns, v1 and v2 being the outcomes of
\* rule1._value(market) and rule2._value(market); `and` / `or` evaluate their
\* right operand only when the left one does not decide
Connective(cls, v1, v2) ==
    IF v1.kind = "raise" THEN v1
    ELSE LET a == Truthy(v1.val)
             right(onTrue) ==
                 IF v2.kind = "raise" THEN v2
                 ELSE Return(BoolV(Truthy(v2.val) = onTrue))
         IN  CASE cls = "EitherRule" -> IF a THEN Return(BoolV(TRUE)) ELSE right(TRUE)
               [] cls = "BothRule" -> IF a THEN right(TRUE) ELSE Return(BoolV(FALSE))
               [] cls = "NANDRule" -> IF a THEN right(FALSE) ELSE Return(BoolV(TRUE))
               [] cls = "NeitherRule" -> IF a THEN Return(BoolV(FALSE)) ELSE right(FALSE)
               [] cls = "XORRule" -> right(~a)
               [] cls = "XNORRule" -> right(a)
               [] cls = "ImpliesRule" -> IF a THEN right(TRUE) ELSE Return(BoolV(TRUE))

\* the _value of a boolean rule that reads its two children in the other order
BooleanRule_value_Swapped(rule, market) ==
    Connective(rule.kind, RawValue(rule.rule2, market), RawValue(rule.rule1, market))

\* EitherRule._value ... ImpliesRule._value
BooleanRule_value(rule, market) ==
    Connective(rule.kind, RawValue(rule.rule1, market), RawValue(rule.rule2, market))

\* ret[key] of a defaultdict(float) kept as its pairs: 0.0 for a key not yet set
DefaultGet(pairs, key) ==
    IF \E i \in 1..Len(pairs) : PyEq(pairs[i][1], key)
    THEN pairs[CHOOSE i \in 1..Len(pairs) : PyEq(pairs[i][1], key)][2]
    ELSE [tag |-> "float", num |-> 0, den |-> 1]

\* for idx, value in val.items(): ret[int(idx)] += value * part
RECURSIVE AddShare(_, _, _)
AddShare(pairs, part, acc) ==
    IF pairs = <<>> THEN Return(acc)
    ELSE LET key == PyInt(Head(pairs)[1])
             prod == PyMul(Head(pairs)[2], part)
         IN  IF key.kind = "raise" THEN key
             ELSE IF prod.kind = "raise" THEN prod
             ELSE AddShare(Tail(pairs), part,
                           DictSet(acc, key.val, PyAdd(DefaultGet(acc, key.val), prod.val).val))

RECURSIVE ResolveMultipleValues_value(_, _, _, _)

\* ResolveMultipleValues._value that returns the summed weights as they are
ResolveMultipleValues_value_NoNormalize(shares, market, i, acc) ==
    IF i > Len(shares) THEN Return(DictV(acc))
    ELSE LET val == value(shares[i][1], market, "FREE_RESPONSE")
         IN  IF val.kind = "raise" THEN val
             ELSE IF ~IsMapping(val.val) THEN Raise("AttributeError", <<>>)
             ELSE LET added == AddShare(val.val.pairs, shares[i][2], acc)
                  IN  IF added.kind = "raise" THEN added
                      ELSE ResolveMultipleValues_value(shares, market, i + 1, added.val)

\* ResolveMultipleValues._value from share i on, acc being `ret`: every share's
\* FREE_RESPONSE value is added in, weighted by the share's part; a value
\* without .items() (None, "CANCEL") is an AttributeError; the sums are
\* normalized at the end
ResolveMultipleValues_value(shares, market, i, acc) ==
    IF i > Len(shares) THEN normalize_mapping(DictV(acc))
    ELSE LET val == value(shares[i][1], market, "FREE_RESPONSE")
         IN  IF val.kind = "raise" THEN val
             ELSE IF ~IsMapping(val.val) THEN Raise("AttributeError", <<>>)
             ELSE LET added == AddShare(val.val.pairs, shares[i][2], acc)
                  IN  IF added.kind = "raise" THEN added
                      ELSE ResolveMultipleValues_value(shares, market, i + 1, added.val)

\* x and y of util.fibonacci after n of its steps `x, y = y, x + y`
RECURSIVE FibonacciState(_)
FibonacciState(n) ==
    IF n = 0 THEN <<0, 1>>
    ELSE <<FibonacciState(n - 1)[2], FibonacciState(n - 1)[1] + FibonacciState(n - 1)[2]>>

\* fibonacci that yields before it has skipped its first `start` numbers
fibonacci_FromZero(start, k) == FibonacciState(k - 1)[1]

\* the k-th number fibonacci(start) yields
fibonacci(start, k) == FibonacciState(start + k - 1)[1]

\* initial[int(answer['id'])] = float(answer['probability']) for every answer
RECURSIVE InitialAnswers(_, _)
InitialAnswers(answers, acc) ==
    IF answers = <<>> THEN Return(acc)
    ELSE LET key == PyInt(Head(answers).id)
             probability == Head(answers).probability
         IN  IF key.kind = "raise" THEN key
             ELSE IF ~IsNumber(probability) THEN Raise("TypeError", <<>>)
             ELSE InitialAnswers(Tail(answers),
                                 DictSet(acc, key.val, FDiv(probability, IntV(1))))

\* util.market_to_answer_map(market, exclude, f), f being the filter
\* `probability < floor` that FibonacciValueRule passes
market_to_answer_map(market, exclude, floor) ==
    IF market.outcomeType \notin {"FREE_RESPONSE", "MULTIPLE_CHOICE"}
    THEN Raise("RuntimeError", <<>>)
    ELSE IF market.answers = <<>> THEN Raise("AssertionError", <<>>)
    ELSE LET initial == InitialAnswers(market.answers, <<>>)
         IN  IF initial.kind = "raise" THEN initial
             ELSE Return(SelectSeq(initial.val,
                     LAMBDA kv : kv[1].n \notin exclude /\ ~NumLess(kv[2], floor)))

\* the place of entry i in sorted(items, key=items.__getitem__): ascending by
\* value, entries of equal value in the order the dict holds them
RankOf(items, i) ==
    1 + Cardinality({ j \in 1..Len(items) :
                        \/ NumLess(items[j][2], items[i][2])
                        \/ (NumEq(items[j][2], items[i][2]) /\ j < i) })

\* FibonacciValueRule._value
FibonacciValueRule_value(rule, market) ==
    LET items == market_to_answer_map(market, rule.exclude, rule.min_rewarded)
    IN  IF items.kind = "raise" THEN items
        ELSE LET rank == [k \in 1..Len(items.val) |->
                             items.val[CHOOSE i \in 1..Len(items.val) :
                                           RankOf(items.val, i) = k][1]]
             IN  normalize_mapping(DictV([k \in 1..Len(rank) |->
                                             <<rank[k], IntV(fibonacci(1, k))>>]))

\* a datetime object, to the hour: an aware one names an instant (its hours are
\* read in UTC), a naive one a reading of the local clock
DateTime(hours, aware) == [tag |-> "datetime", hours |-> hours, aware |-> aware]

ResolveAtTime(resolve_at) == [kind |-> "ResolveAtTime", resolve_at |-> resolve_at]

\* ResolveAtTime._value: `datetime.now(timezone.utc) >= self.resolve_at`; against
\* a naive resolve_at that comparison raises TypeError, and the handler compares
\* the naive local reading datetime.now() instead
ResolveAtTime_value(rule) ==
    IF rule.resolve_at.aware
    THEN Return(BoolV(now - tz >= rule.resolve_at.hours))
    ELSE Return(BoolV(now >= rule.resolve_at.hours))

\* rule._value(market), by the class of the rule
RawValue(rule, market) ==
    CASE rule.kind = "ResolveToValue" -> Return(rule.resolve_value)
      [] rule.kind = "ResolveAtTime" -> ResolveAtTime_value(rule)
      [] rule.kind = "ModulusRule" -> ModulusRule_value(rule, market)
      [] rule.kind = "AdditiveRule" -> AdditiveRule_value(rule.rules, market, 1, IntV(0))
      [] rule.kind = "MultiplicitiveRule" ->
             MultiplicitiveRule_value(rule.rules, market, 1, IntV(0))
      [] rule.kind \in BooleanRules -> BooleanRule_value(rule, market)
      [] rule.kind = "FibonacciValueRule" -> FibonacciValueRule_value(rule, market)
      [] rule.kind = "ResolveMultipleValues" ->
             ResolveMultipleValues_value(rule.shares, market, 1, <<>>)

\* what a module of the rule package binds its names to: subclasses of Rule,
\* other classes, and objects that are no classes (functions, flags)
Namespace(rules, classes, objects) ==
    [rules |-> rules, classes |-> classes, objects |-> objects]

\* the modules under the rule package, by their dotted path, with the names the
\* class statements and the imports at their heads bind
RuleModules ==
    [p \in {<<"generic">>, <<"abstract">>, <<"manifold", "this">>} |->
        CASE p = <<"generic">> ->
                Namespace(BooleanRules \cup
                            {"NegateRule", "ResolveAtTime", "ResolveToValue", "ModulusRule",
                             "AdditiveRule", "MultiplicitiveRule", "ResolveRandomIndex",
                             "ResolveMultipleValues", "DoResolveRule", "ResolutionValueRule",
                             "BinaryRule", "ResolveRandomSeed", "UnaryRule", "VariadicRule"},
                          {"defaultdict", "datetime", "timezone"},
                          {"dataclass", "field", "cast", "TYPE_CHECKING", "get_rule",
                           "normalize_mapping", "round_sig_figs"})
          [] p = <<"abstract">> ->
                Namespace({"UnaryRule", "BinaryRule", "VariadicRule", "ResolveRandomSeed",
                           "Rule", "ResolutionValueRule"},
                          {"Random"},
                          {"dataclass", "field", "urandom", "cast", "TYPE_CHECKING", "get_rule"})
          [] p = <<"manifold", "this">> ->
                Namespace({"CurrentValueRule", "FibonacciValueRule", "PopularValueRule",
                           "ThisMarketClosed", "Rule", "DoResolveRule"},
                          {},
                          {"cast", "TYPE_CHECKING", "market_to_answer_map", "fibonacci"})]

\* import_module(".".join(("", *parts)), __name__): the module at that path
\* under the rule package; the empty path asks for the module named ""
import_module(parts) ==
    IF parts = <<>> THEN Raise("ValueError", <<>>)
    ELSE IF parts \in DOMAIN RuleModules THEN Return(RuleModules[parts])
    ELSE Raise("ModuleNotFoundError", <<>>)

\* get_rule that hands back whatever class the name resolves to
get_rule_AnyClass(type_) ==
    LET mod == import_module(SubSeq(type_, 1, Len(type_) - 1))
        name == type_[Len(type_)]
    IN  IF mod.kind = "raise" THEN mod
        ELSE IF name \in mod.val.rules \cup mod.val.classes THEN Return(name)
        ELSE IF name \in mod.val.objects THEN Raise("TypeError", <<>>)
        ELSE Raise("AttributeError", <<>>)

\* get_rule(type_), type_ being the dotted name split at its dots: getattr of
\* the last part on the module the other parts name, then `issubclass(ret,
\* Rule)`, which raises TypeError when ret is no class, and NameError after it
get_rule(type_) ==
    LET mod == import_module(SubSeq(type_, 1, Len(type_) - 1))
        name == type_[Len(type_)]
    IN  IF mod.kind = "raise" THEN mod
        ELSE IF name \in mod.val.rules THEN Return(name)
        ELSE IF name \in mod.val.classes THEN Raise("NameError", <<>>)
        ELSE IF name \in mod.val.objects THEN Raise("TypeError", <<>>)
        ELSE Raise("AttributeError", <<>>)

\* cls.from_dict(env): ResolveToValue(**env); for a BinaryRule, rule1 and rule2
\* are built from their [type_, kwargs] entries first, then cls(**env_copy)
RECURSIVE from_dict(_, _)
from_dict(cls, env) ==
    IF cls = "ResolveToValue" THEN Return(ResolveToValue(env.resolve_value))
    ELSE LET cls1 == get_rule(env.rule1[1])
             cls2 == get_rule(env.rule2[1])
         IN  IF cls1.kind = "raise" THEN cls1
             ELSE LET r1 == from_dict(cls1.val, env.rule1[2])
                  IN  IF r1.kind = "raise" THEN r1
                      ELSE IF cls2.kind = "raise" THEN cls2
                      ELSE LET r2 == from_dict(cls2.val, env.rule2[2])
                           IN  IF r2.kind = "raise" THEN r2
                               ELSE Return(BinaryRule(cls, r1.val, r2.val))

-----------------------------------------------------------------------------
(* The resolution-value protocol: Rule.value *)

\* Rule.__binary_value without the unwrapping of a length-1 mapping
binary_value_NoMappingUnwrap(market, ret0) ==
    LET unpack ==
            IF ret0.tag # "str" /\ IsSequence(ret0)
            THEN IF PyLen(ret0) = 1 THEN Return(ret0.items[1])
                 ELSE Raise("ValueError", <<>>)
            ELSE Return(ret0)
    IN  IF unpack.kind = "raise" THEN unpack
        ELSE LET ret == unpack.val
             IN  IF IsNumber(ret) THEN Return(ret)
                 ELSE IF ret.tag = "str" THEN FloatOfStr(ret.chars)
                 ELSE Raise("TypeError", <<ret, BuiltinFormat, market>>)

\* Rule.__binary_value
binary_value(market, ret0) ==
    LET unpack ==
            IF ret0.tag # "str" /\ IsSequence(ret0)
            THEN IF PyLen(ret0) = 1 THEN Return(ret0.items[1])
                 ELSE Raise("ValueError", <<>>)    \* (ret, ) = ret
            ELSE IF IsMapping(ret0) /\ PyLen(ret0) = 1
                 THEN Return(ret0.pairs[1][1])
                 ELSE Return(ret0)
    IN  IF unpack.kind = "raise" THEN unpack
        ELSE LET ret == unpack.val
             IN  IF IsNumber(ret) THEN Return(ret)
                 ELSE IF ret.tag = "str" THEN FloatOfStr(ret.chars)
                 ELSE Raise("TypeError", <<ret, BuiltinFormat, market>>)

\* Rule.__multiple_choice_value
multiple_choice_value(market, ret0) ==
    LET built ==
            IF IsMapping(ret0) THEN IntKeys(ret0.pairs, <<>>)
            ELSE IF ret0.tag \in {"bool", "int", "str"}
                 THEN LET k == PyInt(ret0)
                      IN  IF k.kind = "raise" THEN k
                          ELSE Return(DictV(<< <<k.val, IntV(1)>> >>))
            ELSE IF ret0.tag = "float" /\ is_integer(ret0)
                 THEN Return(DictV(<< <<PyInt(ret0).val, IntV(1)>> >>))
            ELSE IF IsIterable(ret0) THEN IntKeysOfItems(ret0.items, <<>>)
            ELSE Raise("TypeError", <<ret0, BuiltinFormat, market>>)
    IN  IF built.kind = "raise" THEN built ELSE normalize_mapping(built.val)

\* the body of Rule.value after `ret = self._value(market)`, got being how
\* that call ended
value_of(got, market, format) ==
    IF got.kind = "raise" THEN got
    ELSE LET ret == got.val
         IN  IF ret = None \/ ret = CANCEL \/ format = "NONE" THEN Return(ret)
             ELSE IF format \in BINARY_LIKE THEN binary_value(market, ret)
             ELSE IF format \in MC_LIKE THEN multiple_choice_value(market, ret)
             ELSE Raise("ValueError", <<>>)

\* Rule.value that coerces also when the requested shape is 'NONE': that shape
\* is then one the protocol does not know
value_NoNoneShape(rule, market, format) ==
    value_of(RawValue(rule, market), market,
             IF format = "NONE" THEN "ValueError" ELSE format)

\* Rule.value(market, format)
value(rule, market, format) == value_of(RawValue(rule, market), market, format)

\* ResolutionValueRule.value(market, format), the earlier revision of the
\* protocol kept in rule/__init__.py, after `ret = self._value(market)`, got
\* being how that call ended
ResolutionValueRule_value_of(got, market, format0) ==
    LET format == IF format0 = "None" THEN market.outcomeType ELSE format0
    IN  IF got.kind = "raise" THEN got
        ELSE LET ret0 == got.val
             IN  IF ret0 = None THEN Return(ret0)
                 ELSE IF ret0 = CANCEL THEN Return(ret0)
                 ELSE IF format \in {"BINARY", "PSEUDO_NUMERIC"}
                 THEN LET ret == IF ret0.tag # "str" /\ IsSequence(ret0) /\ PyLen(ret0) = 1
                                 THEN ret0.items[1]
                                 ELSE IF IsMapping(ret0) /\ PyLen(ret0) = 1
                                      THEN ret0.pairs[1][1]
                                      ELSE ret0
                      IN  IF IsNumber(ret) THEN Return(ret)
                          ELSE IF ret.tag = "str"
                               THEN LET f == FloatOfStr(ret.chars)
                                    IN  IF f.kind = "raise" THEN f
                                        ELSE IF is_integer(f.val) THEN PyInt(f.val)
                                        ELSE f
                          ELSE Raise("TypeError", <<ret, format, market>>)
                 ELSE IF format \in {"FREE_RESPONSE", "MULTIPLE_CHOICE"}
                 THEN IF IsMapping(ret0) THEN IntKeys(ret0.pairs, <<>>)
                      ELSE LET ret == IF IsSequence(ret0) /\ PyLen(ret0) = 1
                                      THEN IF ret0.tag = "str" THEN ret0 ELSE ret0.items[1]
                                      ELSE ret0
                           IN  IF ret.tag = "str"
                               THEN LET k == PyInt(ret)
                                    IN  IF k.kind = "raise" THEN k
                                        ELSE Return(DictV(<< <<k.val, IntV(1)>> >>))
                               ELSE IF ret.tag \in {"bool", "int"}
                                    THEN Return(DictV(<< <<ret, IntV(1)>> >>))
                               ELSE IF ret.tag = "float"
                                    THEN IF is_integer(ret)
                                         THEN Return(DictV(<< <<PyInt(ret).val, IntV(1)>> >>))
                                         ELSE Raise("ValueError", <<>>)
                               ELSE Raise("TypeError", <<ret, format, market>>)
                 ELSE Raise("ValueError", <<>>)

ResolutionValueRule_value(rule, market, format0) ==
    ResolutionValueRule_value_of(RawValue(rule, market), market, format0)

-----------------------------------------------------------------------------
(* Market orchestration: what should_resolve and resolve_to answer *)

NoResult == [kind |-> "none"]

\* any(future.result() for future in futures): the results are taken in list
\* order; a raised error ends the scan, so does the first truthy value
RECURSIVE PyAny(_)
PyAny(outs) ==
    IF outs = <<>> THEN Return(BoolV(FALSE))
    ELSE IF Head(outs).kind = "raise" THEN Head(outs)
    ELSE IF Truthy(Head(outs).val) THEN Return(BoolV(TRUE))
    ELSE PyAny(Tail(outs))

\* the answer of should_resolve that forgets the market's isResolved flag
ShouldResolveAnswer_IgnoreResolved(any, m) == Return(BoolV(any))

\* `any(...) and not self.market.isResolved`, given what any() found
ShouldResolveAnswer(any, m) == Return(BoolV(any /\ ~m.isResolved))

\* Market.should_resolve, with the results taken one after the other
should_resolve(m) ==
    LET any == PyAny([i \in 1..Len(m.do_resolve_rules) |->
                        value(m.do_resolve_rules[i], m, "NONE")])
    IN  IF any.kind = "raise" THEN any
        ELSE ShouldResolveAnswer(any.val.b, m)

\* the loop of Market.resolve_to over the results in list order: `chosen` is the
\* first result that is not None; an error met before that propagates
RECURSIVE FirstChosen(_)
FirstChosen(outs) ==
    IF outs = <<>> THEN Return(None)
    ELSE IF Head(outs).kind = "raise" THEN Head(outs)
    ELSE IF Head(outs).val # None THEN Head(outs)
    ELSE FirstChosen(Tail(outs))

\* the end of resolve_to without its check that a rule fired
ResolveToEnd_NoCheck(chosen) == Return(chosen)

\* the end of Market.resolve_to: `if chosen is None: raise RuntimeError()`
ResolveToEnd(chosen) ==
    IF chosen = None THEN Raise("RuntimeError", <<>>) ELSE Return(chosen)

\* Market.resolve_to, with the results taken one after the other
\* (outcomeType is one of consts.OUTCOMES, so the assertion against "NUMERIC"
\* at its head passes)
resolve_to(m) ==
    LET chosen == FirstChosen([i \in 1..Len(m.resolve_to_rules) |->
                        value(m.resolve_to_rules[i], m, m.outcomeType)])
    IN  IF chosen.kind = "raise" THEN chosen ELSE ResolveToEnd(chosen.val)

-----------------------------------------------------------------------------
(* Market.explain_specific: the text of the comment, of which the model keeps
   the Final Value *)

\* round_sig_figs(num, sig_figs), the text being kept as what it was made from
round_sig_figs(num, sig_figs) == [text |-> "round_sig_figs", num |-> num, sig_figs |-> sig_figs]

\* isinstance(rule, DoResolveRule)
IsDoResolveRule(rule) == rule.kind \in BooleanRules \cup {"ResolveAtTime"}

\* Rule._explain_specific of a rule whose _value gave `val`, as far as it can
\* fail: round_sig_figs of what is no number, .items() of what is no mapping
Rule_explain_specific(val, rule, m) ==
    IF val.kind = "raise" THEN val
    ELSE IF val.val = CANCEL THEN Return(None)
    ELSE IF IsDoResolveRule(rule) \/ m.outcomeType = "BINARY"
    THEN IF val.val = BoolV(TRUE) \/ (IsNumber(val.val) /\ NumEq(val.val, IntV(100)))
         THEN Return(None)
         ELSE IF ~Truthy(val.val) THEN Return(None)
         ELSE IF IsNumber(val.val) THEN Return(None)
         ELSE Raise("TypeError", <<>>)
    ELSE IF m.outcomeType = "PSEUDO_NUMERIC"
    THEN IF IsNumber(val.val) THEN Return(None) ELSE Raise("TypeError", <<>>)
    ELSE IF m.outcomeType \in MC_LIKE
    THEN IF IsMapping(val.val) THEN Return(None) ELSE Raise("AttributeError", <<>>)
    ELSE Return(None)

\* `for rule_ in rules: shim += rule_.explain_specific(market=self, ...)`, the
\* rule at i having explained itself as `explained` says
RECURSIVE ExplainAll_from(_, _, _, _)
ExplainAll_from(rules, m, i, explained) ==
    IF explained.kind = "raise" THEN explained
    ELSE IF i = Len(rules) THEN Return(None)
    ELSE ExplainAll_from(rules, m, i + 1,
                         Rule_explain_specific(RawValue(rules[i + 1], m), rules[i + 1], m))

ExplainAll(rules, m, i) ==
    IF rules = <<>> THEN Return(None)
    ELSE ExplainAll_from(rules, m, i, Rule_explain_specific(RawValue(rules[i], m), rules[i], m))

\* the weights of __format_resolve_to: key and round_sig_figs(weight * 100 / total)
Percentages(pairs, total) ==
    [i \in 1..Len(pairs) |->
        <<pairs[i][1],
          round_sig_figs(FDiv(FMul(pairs[i][2], IntV(100)), FloatV(total[1], total[2])), 4)>>]

\* Market.__format_resolve_to once resolve_to() has given `val`
format_resolve_to(val, m) ==
    IF val.kind = "raise" THEN val
    ELSE IF val.val = CANCEL THEN Return([text |-> "CANCEL"])
    ELSE IF val.val.tag = "bool" \/ m.outcomeType = "BINARY"
    THEN IF val.val.tag \in {"list", "dict"} THEN Raise("TypeError", <<>>)
         ELSE IF IsNumber(val.val) /\ (NumEq(val.val, IntV(1)) \/ NumEq(val.val, IntV(100)))
         THEN Return([text |-> "YES"])
         ELSE IF IsNumber(val.val) /\ NumEq(val.val, IntV(0)) THEN Return([text |-> "NO"])
         ELSE IF IsNumber(val.val)
         THEN Return([text |-> "%", of |-> round_sig_figs(val.val, 4)])
         ELSE Raise("TypeError", <<>>)
    ELSE IF m.outcomeType \in MC_LIKE
    THEN IF val.val.tag \in {"float", "str"} THEN Raise("AssertionError", <<>>)
         ELSE IF ~IsMapping(val.val) THEN Raise("AttributeError", <<>>)
         ELSE IF \E i \in 1..Len(val.val.pairs) : ~IsNumber(val.val.pairs[i][2])
         THEN Raise("TypeError", <<>>)
         ELSE IF val.val.pairs # <<>> /\ SumWeights(val.val.pairs)[1] = 0
         THEN Raise("ZeroDivisionError", <<>>)
         ELSE Return([text |-> "{}",
                      of |-> Percentages(val.val.pairs, SumWeights(val.val.pairs))])
    ELSE Return([text |-> "str", of |-> val.val])

\* Market.explain_specific from its parts, in the order in which they are
\* computed: the first error comes out, else the text ends in the Final Value
explain_specific_of(triggers, resolving, tree, final) ==
    IF triggers.kind = "raise" THEN triggers
    ELSE IF resolving.kind = "raise" THEN resolving
    ELSE IF tree.kind = "raise" THEN tree
    ELSE final

\* Market.explain_specific
Market_explain_specific(m) ==
    explain_specific_of(ExplainAll(m.do_resolve_rules, m, 1),
                        IF m.isResolved THEN Return(BoolV(TRUE)) ELSE should_resolve(m),
                        ExplainAll(m.resolve_to_rules, m, 1),
                        format_resolve_to(resolve_to(m), m))

-----------------------------------------------------------------------------
(* Market.resolve and Market.cancel *)

Event(name, arg) == [ev |-> name, arg |-> arg]
ResponseV(ok) == [tag |-> "Response", ok |-> ok]

\* what a call leaves behind: the Market object, how it ended, and its events
\* and external calls in order
Ended(m, out, events) == [market |-> m, out |-> out, log |-> events]

\* util.require_env(ManifoldAPIKey): without the key the call raises at once,
\* before the body of the method runs
require_env(hasKey) ==
    IF hasKey THEN Return(None) ELSE Raise("EnvironmentError", <<>>)

\* a response whose status is never looked at
raise_for_status_Never(ok) == Return(None)

\* ret.raise_for_status(): the error of a response that reports failure
raise_for_status(ok) == IF ok THEN Return(None) ELSE Raise("HTTPError", <<>>)

\* Market.cancel: cancel_market, raise_for_status, then isResolved = True.
\*   hasKey: ManifoldAPIKey is in the environment;  ok: the response's status
cancel(m, hasKey, ok) ==
    IF require_env(hasKey).kind = "raise" THEN Ended(m, require_env(hasKey), <<>>)
    ELSE IF raise_for_status(ok).kind = "raise"
    THEN Ended(m, raise_for_status(ok), <<Event("cancel_market", None)>>)
    ELSE Ended([m EXCEPT !.isResolved = TRUE], Return(ResponseV(ok)),
                 <<Event("cancel_market", None), Event("isResolved", BoolV(TRUE))>>)

\* a resolve that never hands over to cancel
IsCancel_Never(target) == FALSE

\* `_override == "CANCEL"`
IsCancel(target) == target = CANCEL

\* Market._after_resolve, the listener of after_resolve: explain_specific(),
\* then create_comment; `posted` is whether the comment went through
after_resolve(explained, posted) ==
    IF explained.kind = "raise" THEN explained
    ELSE IF posted THEN Return(None)
    ELSE Raise("HTTPError", <<>>)

\* Market.resolve after resolve_market succeeded: isResolved = True, then
\* emit('after_resolve', ...), out of which the listener's error comes
resolve_emitted(m, outcome, ok, posted, explained) ==
    Ended([m EXCEPT !.isResolved = TRUE],
          IF after_resolve(explained, posted).kind = "raise"
          THEN after_resolve(explained, posted)
          ELSE Return(ResponseV(ok)),
          <<Event("before_resolve", outcome),
            Event("resolve_market", outcome),
            Event("isResolved", BoolV(TRUE)),
            Event("after_resolve", outcome)>>
          \o IF explained.kind = "raise" THEN <<>>
             ELSE <<Event("create_comment", explained.val)>>)

\* Market.resolve from the point where `_override` holds the target value
resolve_target(m, target, ok, posted) ==
    LET coerced == IF m.outcomeType \in MC_LIKE
                   THEN IF ~IsMapping(target) THEN Raise("TypeError", <<>>)
                        ELSE IntKeys(target.pairs, <<>>)
                   ELSE Return(target)
    IN  IF coerced.kind = "raise" THEN Ended(m, coerced, <<>>)
        ELSE IF raise_for_status(ok).kind = "raise"
        THEN Ended(m, raise_for_status(ok),
                     <<Event("before_resolve", coerced.val),
                       Event("resolve_market", coerced.val)>>)
        ELSE resolve_emitted(m, coerced.val, ok, posted,
                             Market_explain_specific([m EXCEPT !.isResolved = TRUE]))

\* Market.resolve once `_override` is assigned: `chosen` is Return(target) or
\* the error of resolve_to
resolve_chosen(m, chosen, hasKey, ok, posted) ==
    IF chosen.kind = "raise" THEN Ended(m, chosen, <<>>)
    ELSE IF IsCancel(chosen.val) THEN cancel(m, hasKey, ok)
    ELSE resolve_target(m, chosen.val, ok, posted)

\* Market.resolve.
\*   override: the caller's value (None: ask resolve_to);  hasKey, ok: as for
\*   cancel;  posted: whether the after_resolve listener's create_comment went
\*   through (its error propagates out of emit)
resolve(m, override, hasKey, ok, posted) ==
    IF require_env(hasKey).kind = "raise" THEN Ended(m, require_env(hasKey), <<>>)
    ELSE resolve_chosen(m, IF override = None THEN resolve_to(m) ELSE Return(override),
                        hasKey, ok, posted)

-----------------------------------------------------------------------------
(* caching.parallel and the futures *)

\* parallel(rule.value, self, format=...): submitted to the pool when CACHE is
\* set, else a Deferred that runs the call when its result is asked for
parallel(cache, rule, format) ==
    [state |-> IF cache THEN "queued" ELSE "deferred",
     rule |-> rule, format |-> format, out |-> NoResult]

\* future.result() once the main thread can have it: the stored outcome of a
\* finished task, or the call a Deferred makes on the spot
FutureResult(f, m) ==
    IF f.state = "done" THEN f.out ELSE value(f.rule, m, f.format)

\* the futures taken in the order in which the pool finished them
Awaited_AsCompleted(k, comp) == IF k <= Len(comp) THEN comp[k] ELSE k

\* `for f_rule in futures`: the k-th future waited for is the k-th of the list
Awaited(k, comp) == k

-----------------------------------------------------------------------------
(* Inputs *)

Market(id, outcomeType, isResolved, do_rules, to_rules) ==
    [id |-> id, outcomeType |-> outcomeType, isResolved |-> isResolved,
     do_resolve_rules |-> do_rules, resolve_to_rules |-> to_rules]

\* the raw values that are not containers
ScalarPool ==
    { None, CANCEL, BoolV(TRUE), BoolV(FALSE), IntV(0), IntV(3), IntV(100),
      FloatV(5, 2), FloatV(7, 1),
      StrV(<<"2", "5">>), StrV(<<"7">>), StrV(<<"2", ".", "5">>), StrV(<<"x">>), StrV(<<>>),
      ObjectV }
\* what a raw list holds
ItemPool == { IntV(7), IntV(3), StrV(<<"3">>), None }
\* the keys and weights of a raw mapping
KeyPool == { IntV(3), IntV(1), StrV(<<"3">>), StrV(<<"x">>) }
WeightPool == { IntV(w) : w \in 0..MaxWeight }

SeqsUpTo(S, n) == UNION { [1..k -> S] : k \in 0..n }

\* a dict never holds two equal keys
DistinctKeys(pairs) ==
    \A i, j \in 1..Len(pairs) : i # j => ~PyEq(pairs[i][1], pairs[j][1])

RawValues ==
    ScalarPool
    \cup { ListV(items) : items \in SeqsUpTo(ItemPool, MaxLen) }
    \cup { DictV(pairs) : pairs \in { ps \in SeqsUpTo(KeyPool \X WeightPool, MaxLen) : DistinctKeys(ps) } }

\* a rule whose _value raises (ZeroDivisionError)
FailingRule == ModulusRule(ResolveToValue(IntV(7)), ResolveToValue(IntV(0)))

\* the rules handed to value(): constants, and a few ModulusRule nodes
ValueRules ==
    { ResolveToValue(v) : v \in RawValues }
    \cup { ModulusRule(ResolveToValue(a), ResolveToValue(b)) :
             a \in {IntV(7), CANCEL}, b \in {IntV(0), IntV(4), None} }

\* the `format` arguments: the four outcome types, 'NONE', the absent argument
\* (Python's None) and a shape the protocol does not know
Formats == OUTCOMES \cup {"NONE", "None", "NUMERIC"}

ValueMarkets ==
    { Market("m1", t, FALSE, <<>>, <<>>) : t \in {"BINARY", "FREE_RESPONSE"} }

\* the do-resolve rules of a market: abstaining, falsy, truthy (a bool, and the
\* string "CANCEL"), and failing
DoRulePool ==
    { ResolveToValue(None), ResolveToValue(BoolV(FALSE)), ResolveToValue(BoolV(TRUE)),
      ResolveToValue(CANCEL), FailingRule }

\* the resolve-to rules of a market: abstaining, two values, and a value no
\* shape accepts
ToRulePool ==
    { ResolveToValue(None), ResolveToValue(IntV(3)), ResolveToValue(IntV(5)),
      ResolveToValue(CANCEL), ResolveToValue(ObjectV) }

\* the values a caller hands to resolve(): none, "CANCEL", a number, a mapping
\* and a mapping whose key is no integer
Overrides ==
    { None, CANCEL, IntV(3),
      DictV(<< <<StrV(<<"3">>), IntV(1)>> >>), DictV(<< <<StrV(<<"x">>), IntV(1)>> >>) }

-----------------------------------------------------------------------------
(* The states before any call *)

ValueIdle ==
    /\ vRule = ResolveToValue(None)
    /\ vFormat = "NONE"
    /\ vMarket = Market("m1", "BINARY", FALSE, <<>>, <<>>)
    /\ vResult = [by |-> "none"]

CallIdle ==
    /\ op = "none" /\ given = NoResult /\ pc = "idle" /\ futures = <<>> /\ idx = 0 /\ completed = <<>>
    /\ result = NoResult /\ log = <<>>

MarketIdle ==
    /\ mkt = Market("m1", "BINARY", FALSE, <<>>, <<>>)
    /\ CACHE = TRUE
    /\ CallIdle

ScanIdle ==
    /\ table = <<>>
    /\ now = 0
    /\ scan = [pc |-> "idle", error |-> None]
    /\ seen = NoResult

RandomIdle ==
    /\ gen = <<>>
    /\ objs = <<>>
    /\ returned = <<>>
    /\ api = None

ClockIdle == tz = 0

CacheIdle ==
    /\ monotonic = 0
    /\ time_cache_state = <<>>
    /\ http = None
    /\ lookups = <<>>

\* state = State(), no tg_main yet, nothing sent
DialogIdle ==
    /\ state = [last_response |-> "NO_ACTION", last_text |-> <<>>]
    /\ tg = [pc |-> "idle", call |-> 0, handled |-> <<>>, returned |-> None]
    /\ chat = [keyboards |-> <<>>, pending |-> <<>>]

vars == <<valueVars, marketVars, scanVars, randomVars, clockVars, cacheVars, dialogVars>>

-----------------------------------------------------------------------------
(* SpecValue: the coercion protocol asked once *)

InitValue ==
    /\ vRule \in ValueRules
    /\ vFormat \in Formats
    /\ vMarket \in ValueMarkets
    /\ vResult = [by |-> "none"]
    /\ MarketIdle
    /\ ScanIdle
    /\ RandomIdle
    /\ ClockIdle
    /\ CacheIdle
    /\ DialogIdle

\* rule.value(market, format=...) as Rule.value answers it
CallRuleValue ==
    /\ vResult.by = "none"
    /\ vResult' = [by |-> "Rule.value", out |-> value(vRule, vMarket, vFormat)]
    /\ UNCHANGED <<vRule, vFormat, vMarket, marketVars, scanVars, randomVars, clockVars, cacheVars, dialogVars>>

\* rule.value(market, format=...) as ResolutionValueRule.value answers it
CallResolutionValueRuleValue ==
    /\ vResult.by = "none"
    /\ vResult' = [by |-> "ResolutionValueRule.value",
                   out |-> ResolutionValueRule_value(vRule, vMarket, vFormat)]
    /\ UNCHANGED <<vRule, vFormat, vMarket, marketVars, scanVars, randomVars, clockVars, cacheVars, dialogVars>>

NextValue == CallRuleValue \/ CallResolutionValueRuleValue

SpecValue == InitValue /\ [][NextValue]_vars

-----------------------------------------------------------------------------
(* Market.should_resolve and Market.resolve_to, future by future *)

\* futures = [parallel(rule.value, self) for rule in self.do_resolve_rules]
CallShouldResolve ==
    /\ pc = "idle"
    /\ op' = "should_resolve"
    /\ futures' = [i \in 1..Len(mkt.do_resolve_rules) |->
                      parallel(CACHE, mkt.do_resolve_rules[i], "NONE")]
    /\ pc' = "collect"
    /\ idx' = 1
    /\ UNCHANGED <<mkt, CACHE, given, completed, result, log, valueVars, scanVars, randomVars, clockVars, cacheVars, dialogVars>>

\* futures = [parallel(rule.value, self, format=outcomeType) for rule in ...]
CallResolveTo ==
    /\ pc = "idle"
    /\ op' = "resolve_to"
    /\ futures' = [i \in 1..Len(mkt.resolve_to_rules) |->
                      parallel(CACHE, mkt.resolve_to_rules[i], mkt.outcomeType)]
    /\ pc' = "collect"
    /\ idx' = 1
    /\ UNCHANGED <<mkt, CACHE, given, completed, result, log, valueVars, scanVars, randomVars, clockVars, cacheVars, dialogVars>>

\* a worker of the pool finishes a submitted call; the pool finishes the calls
\* in any order, also after the caller has returned
RunTask(i) ==
    /\ futures[i].state = "queued"
    /\ futures' = [futures EXCEPT ![i].state = "done",
                                  ![i].out = value(futures[i].rule, mkt, futures[i].format)]
    /\ completed' = Append(completed, i)
    /\ UNCHANGED <<mkt, CACHE, op, given, pc, idx, result, log, valueVars, scanVars, randomVars, clockVars, cacheVars, dialogVars>>

\* the future the main thread blocks on, once its result can be had
Ready(k) ==
    /\ k \in 1..Len(futures)
    /\ futures[k].state # "queued"

\* the main thread has taken the result of future k (a Deferred stores it)
Taken(k) ==
    [futures EXCEPT ![k].state = "done", ![k].out = FutureResult(futures[k], mkt)]

\* one step of `any(future.result() for future in futures) and not isResolved`
CollectShouldResolve ==
    /\ pc = "collect" /\ op = "should_resolve"
    /\ IF idx > Len(futures)
       THEN /\ result' = ShouldResolveAnswer(FALSE, mkt)
            /\ pc' = "done"
            /\ UNCHANGED <<futures, idx>>
       ELSE LET k == Awaited(idx, completed)
            IN  /\ Ready(k)
                /\ futures' = Taken(k)
                /\ LET r == FutureResult(futures[k], mkt)
                   IN  IF r.kind = "raise"
                       THEN result' = r /\ pc' = "done" /\ UNCHANGED idx
                       ELSE IF Truthy(r.val)
                       THEN result' = ShouldResolveAnswer(TRUE, mkt) /\ pc' = "done"
                            /\ UNCHANGED idx
                       ELSE idx' = idx + 1 /\ UNCHANGED <<result, pc>>
    /\ UNCHANGED <<mkt, CACHE, op, given, completed, log, valueVars, scanVars, randomVars, clockVars, cacheVars, dialogVars>>

\* one step of the loop of resolve_to, or its end
CollectResolveTo ==
    /\ pc = "collect" /\ op = "resolve_to"
    /\ IF idx > Len(futures)
       THEN /\ result' = ResolveToEnd(None)
            /\ pc' = "done"
            /\ UNCHANGED <<futures, idx>>
       ELSE LET k == Awaited(idx, completed)
            IN  /\ Ready(k)
                /\ futures' = Taken(k)
                /\ LET r == FutureResult(futures[k], mkt)
                   IN  IF r.kind = "raise"
                       THEN result' = r /\ pc' = "done" /\ UNCHANGED idx
                       ELSE IF r.val # None
                       THEN result' = ResolveToEnd(r.val) /\ pc' = "done" /\ UNCHANGED idx
                       ELSE idx' = idx + 1 /\ UNCHANGED <<result, pc>>
    /\ UNCHANGED <<mkt, CACHE, op, given, completed, log, valueVars, scanVars, randomVars, clockVars, cacheVars, dialogVars>>

InitShouldResolve ==
    /\ mkt \in { Market("m1", "BINARY", r, rules, <<>>) :
                    r \in BOOLEAN, rules \in SeqsUpTo(DoRulePool, MaxRules) }
    /\ CACHE \in BOOLEAN
    /\ CallIdle
    /\ ValueIdle
    /\ ScanIdle
    /\ RandomIdle
    /\ ClockIdle
    /\ CacheIdle
    /\ DialogIdle

NextShouldResolve ==
    \/ CallShouldResolve
    \/ \E i \in 1..Len(futures) : RunTask(i)
    \/ CollectShouldResolve

SpecShouldResolve == InitShouldResolve /\ [][NextShouldResolve]_vars

InitResolveTo ==
    /\ mkt \in { Market("m1", t, FALSE, <<>>, rules) :
                    t \in OUTCOMES, rules \in SeqsUpTo(ToRulePool, MaxRules) }
    /\ CACHE \in BOOLEAN
    /\ CallIdle
    /\ ValueIdle
    /\ ScanIdle
    /\ RandomIdle
    /\ ClockIdle
    /\ CacheIdle
    /\ DialogIdle

NextResolveTo ==
    \/ CallResolveTo
    \/ \E i \in 1..Len(futures) : RunTask(i)
    \/ CollectResolveTo

SpecResolveTo == InitResolveTo /\ [][NextResolveTo]_vars

-----------------------------------------------------------------------------
(* SpecResolve: Market.resolve and Market.cancel, call after call *)

InitResolve ==
    /\ mkt \in { Market("m1", t, FALSE, <<>>, rules) :
                    t \in {"BINARY", "FREE_RESPONSE"},
                    rules \in SeqsUpTo(ToRulePool \ {ResolveToValue(IntV(5))}, MaxRules) }
    /\ CACHE = TRUE
    /\ CallIdle
    /\ ValueIdle
    /\ ScanIdle
    /\ RandomIdle
    /\ ClockIdle
    /\ CacheIdle
    /\ DialogIdle

\* what a finished call leaves in the state
Leaves(e) ==
    /\ mkt' = e.market
    /\ result' = e.out
    /\ log' = e.log

\* one call of mkt.resolve(override), in an environment with or without the
\* API key, answered by the service with success or failure
CallResolve ==
    /\ \E override \in Overrides, hasKey, ok, posted \in BOOLEAN :
          /\ op' = "resolve"
          /\ given' = [override |-> override, hasKey |-> hasKey, ok |-> ok,
                       posted |-> posted]
          /\ Leaves(resolve(mkt, override, hasKey, ok, posted))
    /\ UNCHANGED <<CACHE, pc, futures, idx, completed, valueVars, scanVars, randomVars, clockVars, cacheVars, dialogVars>>

\* one call of mkt.cancel()
CallCancel ==
    /\ \E hasKey, ok \in BOOLEAN :
          /\ op' = "cancel"
          /\ given' = [override |-> None, hasKey |-> hasKey, ok |-> ok,
                       posted |-> FALSE]
          /\ Leaves(cancel(mkt, hasKey, ok))
    /\ UNCHANGED <<CACHE, pc, futures, idx, completed, valueVars, scanVars, randomVars, clockVars, cacheVars, dialogVars>>

NextResolve == CallResolve \/ CallCancel

SpecResolve == InitResolve /\ [][NextResolve]_vars

-----------------------------------------------------------------------------
(* application.watch_reply and application.main: the scan pass *)

\* a datetime, to the hour
Time(t) == [tag |-> "datetime", hours |-> t]

\* what watch_reply or an iteration of main leaves behind
Scanned(m, out, events, response, deleted) ==
    [market |-> m, out |-> out, log |-> events, response |-> response,
     deleted |-> deleted]

\* watch_reply after the operator's response: `acted` is how mkt.resolve() or
\* mkt.cancel() ended
watch_reply_acted(response, acted) ==
    IF acted.out.kind = "raise"
    THEN Scanned(acted.market, acted.out, acted.log, response, FALSE)
    ELSE IF ~acted.market.isResolved
    THEN Scanned(acted.market, Raise("RuntimeError", <<>>), acted.log, response, FALSE)
    ELSE Scanned(acted.market, Return(None), acted.log, response, TRUE)

\* watch_reply after the message is built: `text` is what mkt.resolve_to()
\* gave for it
watch_reply_text(m, text, response, answerOk, ok, posted) ==
    IF text.kind = "raise" THEN Scanned(m, text, <<>>, "none", FALSE)
    ELSE IF ~answerOk THEN Scanned(m, Raise("HTTPError", <<>>), <<>>, "none", FALSE)
    ELSE IF response = "NO_ACTION" THEN Scanned(m, Return(None), <<>>, response, FALSE)
    ELSE IF response = "USE_DEFAULT"
    THEN watch_reply_acted(response, resolve_chosen(m, text, TRUE, ok, posted))
    ELSE watch_reply_acted(response, cancel(m, TRUE, ok))

\* application.watch_reply.
\*   response: what tg_main (or the console) returns;  answerOk: whether
\*   mkt.current_answer() could be fetched for the message;  ok, posted: as for
\*   Market.resolve.  main has checked the API key before it got here, and
\*   mkt.resolve() computes the target the message has shown.
watch_reply(m, response, answerOk, ok, posted) ==
    watch_reply_text(m, resolve_to(m), response, answerOk, ok, posted)

\* a pass that asks the operator about every market it checks
Eligible_Always(check) == TRUE

\* `if check:` on what should_resolve returned
Eligible(check) == Truthy(check)

\* check = refresh or not last_checked or now > last_checked + check_rate hours
Due(row, refresh, t) ==
    \/ refresh
    \/ row.last_checked = None
    \/ t > row.last_checked.hours + row.check_rate

\* the body of the loop of main once should_resolve has answered `check` and
\* the message at line 190 has asked resolve_to(), whatever `check` is
main_checked(m, check, text, response, answerOk, ok, posted) ==
    IF check.kind = "raise" THEN Scanned(m, check, <<>>, "none", FALSE)
    ELSE IF text.kind = "raise" THEN Scanned(m, text, <<>>, "none", FALSE)
    ELSE IF Eligible(check.val)
    THEN watch_reply_text(m, text, response, answerOk, ok, posted)
    ELSE Scanned(m, Return(None), <<>>, "none", FALSE)

\* `if mkt.market.isResolved:` after the reply: the row is deleted there too
main_resolved(reply) ==
    IF reply.out.kind = "raise" THEN reply
    ELSE [reply EXCEPT !.deleted = reply.deleted \/ reply.market.isResolved]

\* the body of the loop of main for one row that is due, up to its DELETE
main_row(row, response, answerOk, ok, posted) ==
    main_resolved(main_checked(row.market, should_resolve(row.market),
                               resolve_to(row.market), response, answerOk, ok, posted))

\* the rows SELECT hands to the loop, in the order of their ids
RECURSIVE RowsOf(_)
RowsOf(ids) ==
    IF ids = {} THEN <<>>
    ELSE LET least == CHOOSE i \in ids : \A j \in ids : i <= j
         IN  <<least>> \o RowsOf(ids \ {least})

\* the table without the row `id`
Delete(t, id) == [i \in (DOMAIN t) \ {id} |-> t[i]]

\* UPDATE markets SET last_checked = ?, market = ? WHERE id = ?
Update(t, id, m, at) ==
    [i \in DOMAIN t |-> IF i = id THEN [t[i] EXCEPT !.market = m, !.last_checked = at]
                        ELSE t[i]]

\* main() is called: without its environment variables it raises at once, else
\* it selects the rows
StartMain ==
    /\ scan.pc = "idle"
    /\ \E hasEnv, refresh \in BOOLEAN :
          scan' = IF hasEnv
                  THEN [pc |-> "loop", rows |-> RowsOf(DOMAIN table), pos |-> 1,
                        refresh |-> refresh]
                  ELSE [pc |-> "idle", error |-> Raise("EnvironmentError", <<>>)]
    /\ seen' = NoResult
    /\ UNCHANGED <<table, now, valueVars, marketVars, randomVars, clockVars, cacheVars, dialogVars>>

\* what an iteration leaves in the state: an error ends the pass with the
\* table as it was; else the row is deleted or updated
LeavesRow(id, due, check, r) ==
    /\ seen' = [id |-> id, market |-> table[id].market, due |-> due, should |-> check,
                response |-> r.response, log |-> r.log, out |-> r.out]
    /\ table' = IF r.out.kind = "raise" THEN table
                ELSE IF r.deleted THEN Delete(table, id)
                ELSE Update(table, id, r.market, Time(now))
    /\ scan' = IF r.out.kind = "raise" THEN [pc |-> "idle", error |-> r.out]
               ELSE [scan EXCEPT !.pos = scan.pos + 1]

\* one iteration of the loop of main
ScanRow ==
    /\ scan.pc = "loop"
    /\ scan.pos <= Len(scan.rows)
    /\ LET id == scan.rows[scan.pos]
       IN  IF Due(table[id], scan.refresh, now)
           THEN \E response \in {"NO_ACTION", "USE_DEFAULT", "CANCEL"},
                   answerOk, ok, posted \in BOOLEAN :
                   LeavesRow(id, TRUE, should_resolve(table[id].market),
                             main_row(table[id], response, answerOk, ok, posted))
           ELSE LeavesRow(id, FALSE, NoResult,
                          Scanned(table[id].market, Return(None), <<>>, "none", FALSE))
    /\ UNCHANGED <<now, valueVars, marketVars, randomVars, clockVars, cacheVars, dialogVars>>

\* conn.close() after the last row
EndMain ==
    /\ scan.pc = "loop"
    /\ scan.pos > Len(scan.rows)
    /\ scan' = [pc |-> "idle", error |-> None]
    /\ UNCHANGED <<table, now, seen, valueVars, marketVars, randomVars, clockVars, cacheVars, dialogVars>>

\* an hour passes
Tick ==
    /\ now < MaxTime
    /\ now' = now + 1
    /\ UNCHANGED <<table, scan, seen, valueVars, marketVars, randomVars, clockVars, cacheVars, dialogVars>>

\* the ids of the tracked markets and what a row can hold at the start: a
\* market that is due or not by its rules, with a value, "CANCEL" or nothing to
\* resolve to, checked every hour or every other hour, never checked so far
TrackedIds == {1, 2}
TrackedRows(id) ==
    { [market |-> Market(id, "BINARY", r, do, to), check_rate |-> id, last_checked |-> None] :
        r \in BOOLEAN,
        do \in { <<ResolveToValue(BoolV(TRUE))>>, <<ResolveToValue(None)>>, <<FailingRule>> },
        to \in { <<ResolveToValue(IntV(3))>>, <<ResolveToValue(CANCEL)>>, <<>> } }

InitScan ==
    /\ \E ids \in SUBSET TrackedIds :
          table \in { t \in [ids -> UNION { TrackedRows(i) : i \in ids }] :
                        \A i \in ids : t[i] \in TrackedRows(i) }
    /\ now = 0
    /\ scan = [pc |-> "idle", error |-> None]
    /\ seen = NoResult
    /\ MarketIdle
    /\ ValueIdle
    /\ RandomIdle
    /\ ClockIdle
    /\ CacheIdle
    /\ DialogIdle

NextScan == StartMain \/ ScanRow \/ EndMain \/ Tick

SpecScan == InitScan /\ [][NextScan]_vars

-----------------------------------------------------------------------------
(* Properties of the coercion protocol, checked under SpecValue *)

\* the value() call under observation has run
Asked == vResult.by # "none"
AskedRule == vResult.by = "Rule.value"
IsConstant(rule) == rule.kind = "ResolveToValue"

\* the entry of a mapping result whose key is the int k: its weight, as a set
WeightsAt(d, k) == { d.pairs[i][2] : i \in { j \in 1..Len(d.pairs) : d.pairs[j][1] = IntV(k) } }

\* the raw values of test_rule_formatting with the integer each stands for
FormattingTable ==
    { <<IntV(100), 100>>,
      <<DictV(<< <<IntV(3), IntV(1)>> >>), 3>>,
      <<ListV(<<IntV(7)>>), 7>>,
      <<StrV(<<"2", "5">>), 25>> }

\* C7: for the constant raw values 100, {3: 1}, [7], "25" and None,
\* value() with a binary-like shape returns the number 100, 3, 7, 25 and None,
\* with an MC-like shape a mapping holding that integer with weight 1 (None
\* stays None); for an unrecognized object it raises a type error for each of
\* the four shapes.
C7_FormattingTable ==
    (Asked /\ IsConstant(vRule) /\ vFormat \in OUTCOMES) =>
        /\ \A row \in FormattingTable :
              vRule.resolve_value = row[1] =>
                /\ vResult.out.kind = "return"
                /\ IF vFormat \in BINARY_LIKE
                   THEN /\ IsNumber(vResult.out.val)
                        /\ NumEq(vResult.out.val, IntV(row[2]))
                   ELSE /\ IsMapping(vResult.out.val)
                        /\ WeightsAt(vResult.out.val, row[2]) # {}
                        /\ \A w \in WeightsAt(vResult.out.val, row[2]) : NumEq(w, IntV(1))
        /\ vRule.resolve_value = None => vResult.out = Return(None)
        /\ vRule.resolve_value = ObjectV =>
                vResult.out.kind = "raise" /\ vResult.out.exc = "TypeError"

\* "25" asked as FREE_RESPONSE came back as {25: 1.0}
C7_Witness ==
    /\ AskedRule
    /\ vRule = ResolveToValue(StrV(<<"2", "5">>))
    /\ vFormat = "FREE_RESPONSE"
    /\ vResult.out = Return(DictV(<< <<IntV(25), FloatV(1, 1)>> >>))

\* the raw value after unwrapping a length-1 list or a length-1 mapping
Unwrapped(raw) ==
    IF raw.tag = "list" /\ PyLen(raw) = 1 THEN raw.items[1]
    ELSE IF raw.tag = "dict" /\ PyLen(raw) = 1 THEN raw.pairs[1][1]
    ELSE raw
IsNumericString(v) == v.tag = "str" /\ FloatOfStr(v.chars).kind = "return"

\* C8: asked for a binary-like shape, a raw value that after unwrapping is
\* neither a number nor a numeric string makes Rule.value raise a type error
\* carrying the offending raw value, the requested shape and the market.
C8_BinaryTypeError ==
    (/\ AskedRule /\ IsConstant(vRule) /\ vFormat \in BINARY_LIKE
     /\ vRule.resolve_value \notin {None, CANCEL}
     /\ ~IsNumber(Unwrapped(vRule.resolve_value))
     /\ ~IsNumericString(Unwrapped(vRule.resolve_value)))
    => /\ vResult.out.kind = "raise"
       /\ vResult.out.exc = "TypeError"
       /\ \/ vResult.out.args = <<vRule.resolve_value, vFormat, vMarket>>
          \/ vResult.out.args = <<Unwrapped(vRule.resolve_value), vFormat, vMarket>>

\* the keys of a raw mapping, converted with int(); the weight each result key
\* is built from (a later entry replaces an earlier one with an equal key)
IntKeySet(pairs) == { PyInt(pairs[i][1]).val : i \in 1..Len(pairs) }
LastWeight(pairs, k) ==
    LET at == { i \in 1..Len(pairs) : PyInt(pairs[i][1]).val = k }
    IN  pairs[CHOOSE i \in at : \A j \in at : j <= i][2]
ResultKeySet(d) == { d.pairs[i][1] : i \in 1..Len(d.pairs) }

\* an MC-like shape was asked of a constant mapping, and value() returned
MappingAnswered ==
    /\ AskedRule /\ IsConstant(vRule) /\ vFormat \in MC_LIKE
    /\ IsMapping(vRule.resolve_value)
    /\ vResult.out.kind = "return"

C10_RawUnchanged ==
    AskedRule =>
        LET got == RawValue(vRule, vMarket)
        IN  (got.kind = "return" /\ (got.val \in {None, CANCEL} \/ vFormat = "NONE"))
                => vResult.out = Return(got.val)

\* a two-entry mapping asked with shape NONE came back as it was
C10_Witness ==
    /\ AskedRule
    /\ vFormat = "NONE"
    /\ vRule = ResolveToValue(DictV(<< <<StrV(<<"3">>), IntV(2)>>, <<IntV(1), IntV(0)>> >>))
    /\ vResult.out = Return(vRule.resolve_value)

-----------------------------------------------------------------------------
(* Properties of Market.resolve_to, checked under SpecResolveTo *)

\* what rule j of resolve_to_rules yields for the market's outcome type
Yields(j) == value(mkt.resolve_to_rules[j], mkt, mkt.outcomeType)

\* rule i yields a value, and every rule before it yields None
FirstToFire(i) ==
    /\ Yields(i).kind = "return"
    /\ Yields(i).val # None
    /\ \A j \in 1..(i - 1) : Yields(j) = Return(None)

ResolveToDone == op = "resolve_to" /\ pc = "done"

\* C1: whatever the order in which the dispatched evaluations complete, a
\* resolve_to that returns returns the value of the lowest-index rule whose
\* coerced value is not None (so never a later rule's value while an earlier
\* rule yields one), and it does return when such a rule comes before any
\* failing one.
C1_FirstWins ==
    ResolveToDone =>
        /\ result.kind = "return" =>
              \E i \in 1..Len(mkt.resolve_to_rules) :
                  FirstToFire(i) /\ result = Yields(i)
        /\ (\E i \in 1..Len(mkt.resolve_to_rules) : FirstToFire(i)) =>
              result.kind = "return"

\* the second rule's evaluation completed first and yields a value, and the
\* first rule's value was returned
C1_Witness ==
    /\ ResolveToDone
    /\ Len(completed) >= 2
    /\ completed[1] = 2
    /\ FirstToFire(1)
    /\ Yields(2).kind = "return" /\ Yields(2).val # None /\ Yields(2) # Yields(1)
    /\ result = Yields(1)

\* C6: when every rule of resolve_to_rules yields None for the market's
\* outcome type, and when there is no rule at all, resolve_to raises
\* RuntimeError and returns no value.
C6_AllNoneRaises ==
    (ResolveToDone /\ \A j \in 1..Len(mkt.resolve_to_rules) : Yields(j) = Return(None))
        => result = Raise("RuntimeError", <<>>)

\* two rules that both abstain, and the call has raised
C6_Witness ==
    /\ ResolveToDone
    /\ Len(mkt.resolve_to_rules) = 2
    /\ \A j \in 1..2 : Yields(j) = Return(None)
    /\ result.kind = "raise" /\ result.exc = "RuntimeError"

-----------------------------------------------------------------------------
(* Properties of Market.should_resolve, checked under SpecShouldResolve *)

\* what rule j of do_resolve_rules evaluates to
Says(j) == value(mkt.do_resolve_rules[j], mkt, "NONE")

SaysYes(j) == Says(j).kind = "return" /\ Truthy(Says(j).val)

ShouldResolveDone == op = "should_resolve" /\ pc = "done"

\* C2: a should_resolve that returns returns True exactly when some rule of
\* do_resolve_rules evaluates to a truthy value and the market's isResolved
\* flag is false, and False otherwise: None and falsy values count as no, an
\* empty list gives False, and so does a resolved market whatever its rules
\* evaluate to.  It returns whenever no rule fails.
C2_ShouldResolve ==
    ShouldResolveDone =>
        /\ result.kind = "return" =>
              /\ result.val \in {BoolV(TRUE), BoolV(FALSE)}
              /\ result.val = BoolV(TRUE) <=>
                    /\ \E j \in 1..Len(mkt.do_resolve_rules) : SaysYes(j)
                    /\ ~mkt.isResolved
        /\ (\A j \in 1..Len(mkt.do_resolve_rules) : Says(j).kind = "return") =>
              result.kind = "return"

\* a resolved market with a truthy rule after an abstaining one: False
C2_Witness ==
    /\ ShouldResolveDone
    /\ mkt.isResolved
    /\ Len(mkt.do_resolve_rules) >= 2
    /\ Says(1) = Return(None)
    /\ SaysYes(2)
    /\ result = Return(BoolV(FALSE))

-----------------------------------------------------------------------------
(* Properties of Market.resolve and Market.cancel, checked under SpecResolve *)

\* how often the last call emitted the event or made the external call `name`
Count(events, name) == Cardinality({ i \in 1..Len(events) : events[i].ev = name })

\* the places of `name` in the events of a call
Places(events, name) == { i \in 1..Len(events) : events[i].ev = name }

\* the target value of the last resolve(): the override, or what resolve_to
\* computes (that does not depend on the isResolved flag)
TargetOfResolve ==
    IF given.override = None THEN resolve_to(mkt) ELSE Return(given.override)

\* resolve() ran its body (the API key is configured) and has a target value
ResolveHadTarget ==
    /\ op = "resolve"
    /\ given.hasKey
    /\ TargetOfResolve.kind = "return"

\* the conversion resolve() applies to the target of an MC-like market fails:
\* the target is no mapping, or one of its keys is no integer
TargetRejected ==
    /\ mkt.outcomeType \in MC_LIKE
    /\ \/ ~IsMapping(TargetOfResolve.val)
       \/ IntKeys(TargetOfResolve.val.pairs, <<>>).kind = "raise"

\* C4 as stated: a resolve whose target value is "CANCEL" calls the external
\* cancel action exactly once and never the external resolve action; for every
\* other target value it calls the external resolve action and never the
\* cancel action.
C4_CancelOrResolve ==
    ResolveHadTarget =>
        IF TargetOfResolve.val = CANCEL
        THEN Count(log, "cancel_market") = 1 /\ Count(log, "resolve_market") = 0
        ELSE Count(log, "resolve_market") >= 1 /\ Count(log, "cancel_market") = 0

\* C4 amended: with the API key configured, a resolve whose target value is
\* "CANCEL" calls the external cancel action exactly once and never the external
\* resolve action; for every other target value it never calls the cancel
\* action, and it calls the external resolve action exactly once unless the
\* market is MC-like and the target is no mapping or has a key that is no
\* integer: then it raises and makes no external call.  Without the API key it
\* raises and makes no external call at all.
C4_CancelOrResolveOrReject ==
    /\ ResolveHadTarget =>
          IF TargetOfResolve.val = CANCEL
          THEN Count(log, "cancel_market") = 1 /\ Count(log, "resolve_market") = 0
          ELSE IF TargetRejected
          THEN /\ Count(log, "resolve_market") = 0 /\ Count(log, "cancel_market") = 0
               /\ result.kind = "raise"
          ELSE Count(log, "resolve_market") = 1 /\ Count(log, "cancel_market") = 0
    /\ (op \in {"resolve", "cancel"} /\ ~given.hasKey) =>
          /\ Count(log, "resolve_market") = 0 /\ Count(log, "cancel_market") = 0
          /\ result.kind = "raise"

\* resolve() without an override on a market whose rules say "CANCEL": the
\* cancel action was called once, the resolve action not at all
C4_Witness ==
    /\ ResolveHadTarget
    /\ given.override = None
    /\ TargetOfResolve.val = CANCEL
    /\ Count(log, "cancel_market") = 1
    /\ Count(log, "resolve_market") = 0

\* C5: resolve and cancel set the isResolved flag only after the external call
\* has reported success.  When the external call reports failure the error
\* propagates, the flag keeps the value it had before the call and no
\* after_resolve is emitted; when the external resolve action succeeds the flag
\* is set and after that after_resolve is emitted.
C5_FlagAfterSuccess ==
    [][ op' \in {"resolve", "cancel"} =>
          LET external == Places(log', "resolve_market") \cup Places(log', "cancel_market")
              flagged == Places(log', "isResolved")
              notified == Places(log', "after_resolve")
          IN  /\ (external # {} /\ ~given'.ok) =>
                    /\ result'.kind = "raise"
                    /\ mkt'.isResolved = mkt.isResolved
                    /\ flagged = {} /\ notified = {}
              /\ mkt'.isResolved # mkt.isResolved =>
                    /\ mkt'.isResolved
                    /\ given'.ok
                    /\ \E i \in external : \A j \in flagged : i < j
              /\ flagged # {} => mkt'.isResolved /\ external # {} /\ given'.ok
              /\ (Places(log', "resolve_market") # {} /\ given'.ok) =>
                    /\ mkt'.isResolved
                    /\ \E i \in Places(log', "resolve_market"), j \in flagged, k \in notified :
                          i < j /\ j < k
              /\ op' = "cancel" => notified = {}
      ]_vars

\* the service refused a resolve: the error came out, the flag is still false
C5_Witness ==
    /\ op = "resolve"
    /\ given.hasKey /\ ~given.ok
    /\ Count(log, "resolve_market") = 1
    /\ result.kind = "raise" /\ result.exc = "HTTPError"
    /\ ~mkt.isResolved
    /\ Count(log, "after_resolve") = 0

-----------------------------------------------------------------------------
(* Properties of the scan pass, checked under SpecScan *)

\* an iteration of the loop of main has run
RowSeen == seen # NoResult

\* C3: in a scan pass the external resolve action is called for a tracked
\* market only after should_resolve returned True for it and the operator's
\* response was USE_DEFAULT, and the external cancel action only after the
\* response was CANCEL, or USE_DEFAULT with the target value "CANCEL"; when the
\* response is NO_ACTION no external resolve or cancel call is made and the
\* market's row stays in the table.
C3_ScanGate ==
    RowSeen =>
        /\ Count(seen.log, "resolve_market") > 0 =>
              /\ seen.due
              /\ seen.should = Return(BoolV(TRUE))
              /\ seen.response = "USE_DEFAULT"
        /\ Count(seen.log, "cancel_market") > 0 =>
              /\ seen.due
              /\ seen.should = Return(BoolV(TRUE))
              /\ \/ seen.response = "CANCEL"
                 \/ /\ seen.response = "USE_DEFAULT"
                    /\ resolve_to(seen.market) = Return(CANCEL)
        /\ seen.response = "NO_ACTION" =>
              /\ Count(seen.log, "resolve_market") = 0
              /\ Count(seen.log, "cancel_market") = 0
              /\ seen.id \in DOMAIN table
              /\ seen.out = Return(None)

\* the operator confirmed the default for a market that should resolve, the
\* resolve action was called and the row is gone
C3_Witness ==
    /\ RowSeen
    /\ seen.should = Return(BoolV(TRUE))
    /\ seen.response = "USE_DEFAULT"
    /\ Count(seen.log, "resolve_market") = 1
    /\ seen.out = Return(None)
    /\ seen.id \notin DOMAIN table

-----------------------------------------------------------------------------
(* SpecVariadic: AdditiveRule and MultiplicitiveRule evaluated once *)

\* longest list of children of a variadic rule
MaxChildren == 3

\* the children of a variadic rule: numbers, a numeric string, "CANCEL", a child
\* that abstains (None), one whose value cannot be coerced, and one that fails
ChildPool ==
    { ResolveToValue(v) :
        v \in { IntV(2), IntV(3), FloatV(1, 2), StrV(<<"7">>), CANCEL, None, StrV(<<"x">>) } }
    \cup { FailingRule }

VariadicRules ==
    { AdditiveRule(rs) : rs \in SeqsUpTo(ChildPool, MaxChildren) }
    \cup { MultiplicitiveRule(rs) : rs \in SeqsUpTo(ChildPool, MaxChildren) }

InitVariadic ==
    /\ vRule \in VariadicRules
    /\ vFormat \in {"NONE", "PSEUDO_NUMERIC"}
    /\ vMarket = Market("m1", "PSEUDO_NUMERIC", FALSE, <<>>, <<>>)
    /\ vResult = [by |-> "none"]
    /\ MarketIdle
    /\ ScanIdle
    /\ RandomIdle
    /\ ClockIdle
    /\ CacheIdle
    /\ DialogIdle

\* rule._value(market)
CallRawValue ==
    /\ vResult.by = "none"
    /\ vResult' = [by |-> "Rule._value", out |-> RawValue(vRule, vMarket)]
    /\ UNCHANGED <<vRule, vFormat, vMarket, marketVars, scanVars, randomVars, clockVars, cacheVars, dialogVars>>

NextVariadic == CallRawValue \/ CallRuleValue

SpecVariadic == InitVariadic /\ [][NextVariadic]_vars

\* the PSEUDO_NUMERIC value of child i of the rule asked
ChildValue(i) == value(vRule.rules[i], vMarket, "PSEUDO_NUMERIC")
Children == 1..Len(vRule.rules)
IsPseudoNumeric(r) == r.kind = "return" /\ (IsNumber(r.val) \/ r.val = CANCEL)

\* n1 * ... * nk of the children's values
RECURSIVE ProductOfChildren(_)
ProductOfChildren(k) ==
    IF k = 0 THEN IntV(1) ELSE PyMul(ProductOfChildren(k - 1), ChildValue(k).val).val

C12_Product ==
    ( /\ Asked
      /\ vRule.kind = "MultiplicitiveRule"
      /\ Len(vRule.rules) >= 1
      /\ \A i \in Children : ChildValue(i).kind = "return" /\ IsNumber(ChildValue(i).val) )
    => /\ vResult.out.kind = "return"
       /\ IsNumber(vResult.out.val)
       /\ NumEq(vResult.out.val, ProductOfChildren(Len(vRule.rules)))

-----------------------------------------------------------------------------
(* SpecBoolean: the boolean rules over two constants, built directly and by
   from_dict *)

\* the raw values of the two children: True, False, None and a few more truthy
\* and falsy values
TruthPool == { BoolV(TRUE), BoolV(FALSE), None, IntV(0), IntV(3), CANCEL }

\* the dictionary a rule over two constants is written as
TestEnv(rule) ==
    [rule1 |-> << <<"generic", "ResolveToValue">>, [resolve_value |-> rule.rule1.resolve_value] >>,
     rule2 |-> << <<"generic", "ResolveToValue">>, [resolve_value |-> rule.rule2.resolve_value] >>]

InitBoolean ==
    /\ vRule \in { BinaryRule(cls, ResolveToValue(a), ResolveToValue(b)) :
                     cls \in BooleanRules, a \in TruthPool, b \in TruthPool }
    /\ vFormat = "NONE"
    /\ vMarket = Market("m1", "BINARY", FALSE, <<>>, <<>>)
    /\ vResult = [by |-> "none"]
    /\ MarketIdle
    /\ ScanIdle
    /\ RandomIdle
    /\ ClockIdle
    /\ CacheIdle
    /\ DialogIdle

\* RuleSubclass.from_dict({...})._value(mkt)
FromDictValue(cls, env, market) ==
    LET built == from_dict(cls, env)
    IN  IF built.kind = "raise" THEN built ELSE RawValue(built.val, market)

CallFromDictValue ==
    /\ vResult.by = "none"
    /\ vResult' = [by |-> "from_dict", out |-> FromDictValue(vRule.kind, TestEnv(vRule), vMarket)]
    /\ UNCHANGED <<vRule, vFormat, vMarket, marketVars, scanVars, randomVars, clockVars, cacheVars, dialogVars>>

NextBoolean == CallRawValue \/ CallRuleValue \/ CallFromDictValue

SpecBoolean == InitBoolean /\ [][NextBoolean]_vars

\* the truth table of each boolean rule
TruthTable(cls, a, b) ==
    CASE cls = "EitherRule" -> a \/ b
      [] cls = "BothRule" -> a /\ b
      [] cls = "NANDRule" -> ~(a /\ b)
      [] cls = "NeitherRule" -> ~(a \/ b)
      [] cls = "XORRule" -> a # b
      [] cls = "XNORRule" -> a = b
      [] cls = "ImpliesRule" -> (~a) \/ b

TestValues == { BoolV(TRUE), BoolV(FALSE), None }

\* C13: for children that are constants drawn from {True, False, None}, the
\* boolean coercion of the value of each boolean rule is its truth table applied
\* to the truthiness of the two constants, whether the rule was built directly
\* or by from_dict
C13_TruthTables ==
    ( /\ Asked
      /\ vRule.rule1.resolve_value \in TestValues
      /\ vRule.rule2.resolve_value \in TestValues )
    => /\ vResult.out.kind = "return"
       /\ Truthy(vResult.out.val)
            = TruthTable(vRule.kind, Truthy(vRule.rule1.resolve_value),
                         Truthy(vRule.rule2.resolve_value))

\* an implication with a true antecedent and a None consequent, built by
\* from_dict, has been evaluated to a falsy value
C13_Witness ==
    /\ vResult.by = "from_dict"
    /\ vRule.kind = "ImpliesRule"
    /\ vRule.rule1.resolve_value = BoolV(TRUE)
    /\ vRule.rule2.resolve_value = None
    /\ vResult.out = Return(BoolV(FALSE))

-----------------------------------------------------------------------------
(* The seeded random rules: ResolveRandomSeed, ResolveRandomIndex and
   AmplifiedOddsRule *)

\* most draws one evaluation makes (the `rounds` field)
MaxRounds == 2
\* most evaluations of one rule object
MaxEvals == 2

\* what one step of a generator yields: the fraction k / Len of [0, 1) it falls in
RawDraws == {0, 1, 2}
Seeds == {1, 2}

\* the keyword arguments of a call, by name
NoKwargs == [k \in {} |-> None]

ResolveRandomSeed(seed, method, rounds, args, kwargs) ==
    [kind |-> "ResolveRandomSeed", seed |-> seed, method |-> method, rounds |-> rounds,
     args |-> args, kwargs |-> kwargs]

\* ResolveRandomIndex(seed, size=..., start=..., rounds=...): __init__ picks the
\* method from `size` and leaves args and kwargs at their defaults
ResolveRandomIndex(seed, size, start, rounds) ==
    [kind |-> "ResolveRandomIndex", seed |-> seed,
     method |-> IF size = None THEN "choices" ELSE "randrange",
     rounds |-> rounds, args |-> <<>>, kwargs |-> NoKwargs, size |-> size, start |-> start]

AmplifiedOddsRule(seed, rounds, a, id_) ==
    [kind |-> "AmplifiedOddsRule", seed |-> seed, method |-> "random", rounds |-> rounds,
     args |-> <<>>, kwargs |-> NoKwargs, a |-> a, id_ |-> id_]

\* Random(seed): a generator at the start of the stream its seed determines
Random(g, seed) == [stream |-> g[seed], pos |-> 0]

\* the index random.choices picks: the first entry whose cumulative weight
\* exceeds u * total, the last entry at most
RECURSIVE Bisect(_, _, _, _)
Bisect(weights, target, i, cum) ==
    IF i = Len(weights) THEN i
    ELSE LET c == FAdd(cum, weights[i])
         IN  IF NumLess(target, c) THEN i ELSE Bisect(weights, target, i + 1, c)

RECURSIVE SumOf(_)
SumOf(weights) ==
    IF weights = <<>> THEN FloatV(0, 1) ELSE FAdd(weights[1], SumOf(Tail(weights)))

\* getattr(source, method)(*args, **kwargs) on the raw draw u in [0, 1):
\* random() gives u; randrange(start, stop) an int of [start, stop), a
\* ValueError if that range is empty; choices(population, weights=w) a list of
\* one member of the population
RandomCall(u, method, args, kwargs) ==
    CASE method = "random" ->
            IF args # <<>> \/ DOMAIN kwargs # {} THEN Raise("TypeError", <<>>)
            ELSE Return(u)
      [] method = "randrange" ->
            IF Len(args) # 2 \/ DOMAIN kwargs # {} THEN Raise("TypeError", <<>>)
            ELSE IF args[1].tag # "int" \/ args[2].tag # "int" THEN Raise("TypeError", <<>>)
            ELSE LET width == args[2].n - args[1].n
                 IN  IF width <= 0 THEN Raise("ValueError", <<>>)
                     ELSE Return(IntV(args[1].n + (NumOf(u) * width) \div DenOf(u)))
      [] method = "choices" ->
            IF Len(args) # 1 \/ DOMAIN kwargs # {"weights"} THEN Raise("TypeError", <<>>)
            ELSE LET population == args[1].items
                     weights == kwargs["weights"].items
                 IN  IF population = <<>> THEN Raise("IndexError", <<>>)
                     ELSE IF NumOf(SumOf(weights)) <= 0 THEN Raise("ValueError", <<>>)
                     ELSE Return(ListV(<<population[
                              Bisect(weights, FMul(u, SumOf(weights)), 1, FloatV(0, 1))]>>))

\* the loop of ResolveRandomSeed._value with k rounds to go: each round draws
\* from the generator and keeps the result; `last` is the value of `ret`
RECURSIVE Rounds(_, _, _, _)
Rounds(source, self, k, last) ==
    IF k = 0 THEN last
    ELSE LET drawn == RandomCall(FloatV(source.stream[source.pos + 1], Cardinality(RawDraws)),
                                 self.method, self.args, self.kwargs)
         IN  IF drawn.kind = "raise" THEN drawn
             ELSE Rounds([source EXCEPT !.pos = @ + 1], self, k - 1, drawn)

\* ResolveRandomSeed._value that returns the first draw whatever `rounds` is
ResolveRandomSeed_value_FirstDraw(g, self) ==
    Rounds(Random(g, self.seed), self, IF self.rounds = 0 THEN 0 ELSE 1,
           Raise("UnboundLocalError", <<>>))

\* ResolveRandomSeed._value: a generator made from the seed, `rounds` draws, the
\* last one returned (`ret` is unbound when rounds is 0)
ResolveRandomSeed_value(g, self) ==
    Rounds(Random(g, self.seed), self, self.rounds, Raise("UnboundLocalError", <<>>))

\* [(int(idx), float(obj)) for idx, obj in pool.items() if int(idx) >= start]
RECURSIVE PoolItems(_, _, _)
PoolItems(pool, start, acc) ==
    IF pool = <<>> THEN Return(acc)
    ELSE LET key == PyInt(pool[1][1])
         IN  IF key.kind = "raise" THEN key
             ELSE PoolItems(Tail(pool), start,
                            IF key.val.n >= start
                            THEN Append(acc, <<key.val, FloatV(NumOf(pool[1][2]), DenOf(pool[1][2]))>>)
                            ELSE acc)

\* the object after the assignments ResolveRandomIndex._value makes to self, or
\* the error of building them
ResolveRandomIndex_args(self, pool) ==
    IF self.method = "randrange"
    THEN Return([self EXCEPT !.args = <<IntV(self.start), self.size>>])
    ELSE LET items == PoolItems(pool, self.start, <<>>)
         IN  IF items.kind = "raise" THEN items
             ELSE Return([self EXCEPT
                     !.args = <<ListV([i \in 1..Len(items.val) |-> IntV(self.start + i - 1)])>>,
                     !.kwargs = ("weights" :> ListV([i \in 1..Len(items.val) |-> items.val[i][2]]))])

\* OtherMarketValue._binary_value on the referenced market
OtherMarketValue_binary_value(other) ==
    IF other.isResolved
    THEN IF other.resolution = "YES" THEN BoolV(TRUE)
         ELSE IF other.resolution = "NO" THEN BoolV(FALSE)
         ELSE other.resolutionProbability
    ELSE other.probability

\* AmplifiedOddsRule._value that leaves the odds of NO as they are
AmplifiedOddsRule_value_NoAmplify(self, val, drawn) ==
    IF val = BoolV(TRUE) THEN Return(BoolV(TRUE))
    ELSE IF val = BoolV(FALSE)
    THEN IF drawn.kind = "raise" THEN drawn
         ELSE IF NumLess(drawn.val, IntV(1)) THEN Return(BoolV(FALSE))
         ELSE Return(CANCEL)
    ELSE IF ~IsNumber(val) THEN Raise("TypeError", <<>>)
    ELSE Return(FMul(FDiv(val, FAdd(val, FSub(IntV(1), val))), IntV(100)))

\* AmplifiedOddsRule._value, `drawn` being the outcome of ResolveRandomSeed._value
AmplifiedOddsRule_value(self, val, drawn) ==
    IF val = BoolV(TRUE) THEN Return(BoolV(TRUE))
    ELSE IF val = BoolV(FALSE)
    THEN IF drawn.kind = "raise" THEN drawn
         ELSE IF self.a = 0 THEN Raise("ZeroDivisionError", <<>>)
         ELSE IF ~IsNumber(drawn.val) THEN Raise("TypeError", <<>>)
         ELSE IF NumLess(drawn.val, FDiv(IntV(1), IntV(self.a))) THEN Return(BoolV(FALSE))
         ELSE Return(CANCEL)
    ELSE IF ~IsNumber(val) THEN Raise("TypeError", <<>>)
    ELSE IF self.a = 0 THEN Raise("ZeroDivisionError", <<>>)
    ELSE LET denom == FAdd(val, FDiv(FSub(IntV(1), val), IntV(self.a)))
         IN  IF NumOf(denom) = 0 THEN Raise("ZeroDivisionError", <<>>)
             ELSE Return(FMul(FDiv(val, denom), IntV(100)))

\* self._value(market) of a random rule: the object as the call leaves it, and
\* the outcome of the call
Evaluated(g, self, snapshot) ==
    CASE self.kind = "ResolveRandomSeed" ->
            [self |-> self, out |-> ResolveRandomSeed_value(g, self)]
      [] self.kind = "ResolveRandomIndex" ->
            LET set == ResolveRandomIndex_args(self, snapshot.pool)
            IN  IF set.kind = "raise" THEN [self |-> self, out |-> set]
                ELSE [self |-> set.val, out |-> ResolveRandomSeed_value(g, set.val)]
      [] self.kind = "AmplifiedOddsRule" ->
            [self |-> self,
             out |-> AmplifiedOddsRule_value(self, OtherMarketValue_binary_value(snapshot.other),
                                             ResolveRandomSeed_value(g, self))]

-----------------------------------------------------------------------------
(* SpecRandom: two rule objects evaluated again and again, in any order *)

\* pymanifold's Market as the rules read it
APIMarket(isResolved, resolution, resolutionProbability, probability) ==
    [outcomeType |-> "BINARY", isResolved |-> isResolved, resolution |-> resolution,
     resolutionProbability |-> resolutionProbability, probability |-> probability]

\* the referenced market: resolved YES, NO or to a probability, and open at 1%
\* and at 50%
OtherMarkets ==
    { APIMarket(TRUE, "YES", None, FloatV(9, 10)), APIMarket(TRUE, "NO", None, FloatV(1, 10)),
      APIMarket(TRUE, "MKT", FloatV(1, 4), FloatV(1, 4)),
      APIMarket(FALSE, "None", None, FloatV(1, 100)), APIMarket(FALSE, "None", None, FloatV(1, 2)) }

\* market.market.pool of a binary market and of a multiple-choice market
BinaryPool == << <<StrV(<<"Y", "E", "S">>), IntV(1)>>, <<StrV(<<"N", "O">>), IntV(1)>> >>
ChoicePool == << <<StrV(<<"0">>), IntV(1)>>, <<StrV(<<"1">>), IntV(3)>>, <<StrV(<<"2">>), IntV(0)>> >>

\* what the service shows during one run: the same at every evaluation
Snapshots ==
    { [other |-> o, pool |-> ChoicePool] : o \in OtherMarkets }
    \cup { [other |-> APIMarket(TRUE, "YES", None, FloatV(9, 10)), pool |-> BinaryPool] }

\* the rule evaluated: every kind, with one seed
RandomRules ==
    { ResolveRandomSeed(1, "random", k, <<>>, NoKwargs) : k \in 0..MaxRounds }
    \cup { ResolveRandomIndex(1, size, start, k) :
             size \in {None, IntV(1), IntV(2), IntV(3)}, start \in 0..2, k \in 1..MaxRounds }
    \cup { AmplifiedOddsRule(1, k, a, "other") : a \in {1, 2, 100}, k \in 1..MaxRounds }

\* the rule evaluated in between, on either seed
OtherRules ==
    { ResolveRandomSeed(seed, "random", 1, <<>>, NoKwargs) : seed \in Seeds }
    \cup { ResolveRandomIndex(1, IntV(3), 0, MaxRounds) }

\* no generator is ever made from a seed that neither object holds: the stream
\* of such a seed is left at zeros
InitRandom ==
    /\ objs \in { <<r, o>> : r \in RandomRules, o \in OtherRules }
    /\ gen \in { g \in [Seeds -> [1..MaxRounds -> RawDraws]] :
                    \A s \in Seeds \ {objs[1].seed, objs[2].seed} :
                        g[s] = [k \in 1..MaxRounds |-> 0] }
    /\ returned = << <<>>, <<>> >>
    /\ api \in Snapshots
    /\ ValueIdle
    /\ MarketIdle
    /\ ScanIdle
    /\ ClockIdle
    /\ CacheIdle
    /\ DialogIdle

\* one more evaluation of object i: rule._value(market)
Evaluate(i) ==
    /\ Len(returned[i]) < MaxEvals
    /\ objs' = [objs EXCEPT ![i] = Evaluated(gen, objs[i], api).self]
    /\ returned' = [returned EXCEPT ![i] = Append(@, Evaluated(gen, objs[i], api).out)]
    /\ UNCHANGED <<gen, api, valueVars, marketVars, scanVars, clockVars, cacheVars, dialogVars>>

NextRandom == \E i \in {1, 2} : Evaluate(i)

SpecRandom == InitRandom /\ [][NextRandom]_vars

\* the k-th raw draw of a generator seeded with `seed`, as a float of [0, 1)
NthDraw(seed, k) == FloatV(gen[seed][k], Cardinality(RawDraws))
Evaluations(i) == 1..Len(returned[i])

\* C14: every evaluation of a ResolveRandomIndex constructed with a size >= 1
\* and a start >= 0 returns an integer i with start <= i < start + size
C14_IndexInRange ==
    \A k \in Evaluations(1) :
        (objs[1].kind = "ResolveRandomIndex" /\ objs[1].size # None)
        => /\ returned[1][k].kind = "return"
           /\ returned[1][k].val.tag = "int"
           /\ objs[1].start <= returned[1][k].val.n
           /\ returned[1][k].val.n < objs[1].start + objs[1].size.n

\* C15: every evaluation of a rule object has the outcome of its first
\* evaluation, however the evaluations of the two objects interleave; a
\* ResolveRandomSeed that makes at least one round returns the rounds-th draw of
\* a generator freshly seeded with its seed
C15_SameValue ==
    \A i \in {1, 2} : \A k \in Evaluations(i) :
        /\ returned[i][k] = returned[i][1]
        /\ (objs[i].kind = "ResolveRandomSeed" /\ objs[i].rounds >= 1)
           => returned[i][k] = Return(NthDraw(objs[i].seed, objs[i].rounds))

\* a rule of two rounds and a rule of one round on the same seed, whose
\* generator gives two different draws, have both been evaluated twice
C15_Witness ==
    /\ Len(returned[1]) = MaxEvals /\ Len(returned[2]) = MaxEvals
    /\ objs[1].kind = "ResolveRandomSeed" /\ objs[1].rounds = 2
    /\ objs[2].kind = "ResolveRandomSeed" /\ objs[2].seed = objs[1].seed
    /\ returned[1][1] # returned[2][1]
    /\ returned[1][1].kind = "return"

\* the referenced value is an intermediate probability
Intermediate(other) == OtherMarketValue_binary_value(other).tag = "float"

\* the whole number nearest below a non-negative float
Floor(v) == NumOf(v) \div DenOf(v)

\* C17: AmplifiedOddsRule with parameter a returns True when the referenced
\* market resolved YES; when it resolved NO, False if the seeded draw is less
\* than 1/a and "CANCEL" otherwise; for an intermediate probability p = n/d it
\* returns 100 * p / (p + (1 - p) / a), which is 100*n*a / (n*a + d - n): about
\* 50 for a = 100 and p = 1%, about 99 for a = 100 and p = 50%
C17_AmplifiedOdds ==
    \A k \in Evaluations(1) :
        objs[1].kind = "AmplifiedOddsRule" =>
            LET val == OtherMarketValue_binary_value(api.other)
                a == objs[1].a
                got == returned[1][k]
            IN  /\ val = BoolV(TRUE) => got = Return(BoolV(TRUE))
                /\ val = BoolV(FALSE) =>
                     got = IF NumOf(NthDraw(objs[1].seed, objs[1].rounds)) * a
                                < DenOf(NthDraw(objs[1].seed, objs[1].rounds))
                           THEN Return(BoolV(FALSE)) ELSE Return(CANCEL)
                /\ Intermediate(api.other) =>
                     /\ got.kind = "return" /\ got.val.tag = "float"
                     /\ NumEq(got.val, FloatV(100 * NumOf(val) * a,
                                              NumOf(val) * a + DenOf(val) - NumOf(val)))
                     /\ (a = 100 /\ val = FloatV(1, 100)) => Floor(got.val) = 50
                     /\ (a = 100 /\ val = FloatV(1, 2)) => Floor(got.val) = 99

\* a rule with a = 2 on a market that resolved NO has cancelled, its draw being
\* 2/3
C17_Witness ==
    /\ Len(returned[1]) >= 1
    /\ objs[1].kind = "AmplifiedOddsRule" /\ objs[1].a = 2
    /\ api.other.resolution = "NO"
    /\ NthDraw(objs[1].seed, objs[1].rounds) = FloatV(2, 3)
    /\ returned[1][1] = Return(CANCEL)

-----------------------------------------------------------------------------
(* SpecShares: ResolveMultipleValues evaluated once *)

\* most shares of a ResolveMultipleValues
MaxShares == 2

\* the constituent rules: mappings of one and two answers, an empty mapping, a
\* single index, "CANCEL", an abstaining rule and a failing one
ShareRules ==
    { ResolveToValue(v) :
        v \in { DictV(<< <<IntV(0), IntV(1)>> >>),
                DictV(<< <<IntV(0), IntV(1)>>, <<IntV(1), IntV(3)>> >>),
                DictV(<<>>), IntV(1), CANCEL, None } }
    \cup { FailingRule }

\* the weights of the shares
ShareParts == { IntV(0), IntV(1), IntV(3), FloatV(1, 2) }

InitShares ==
    /\ vRule \in { ResolveMultipleValues(shares) :
                     shares \in SeqsUpTo(ShareRules \X ShareParts, MaxShares) }
    /\ vFormat \in {"NONE", "FREE_RESPONSE"}
    /\ vMarket = Market("m1", "FREE_RESPONSE", FALSE, <<>>, <<>>)
    /\ vResult = [by |-> "none"]
    /\ MarketIdle
    /\ ScanIdle
    /\ RandomIdle
    /\ ClockIdle
    /\ CacheIdle
    /\ DialogIdle

NextShares == CallRawValue \/ CallRuleValue

SpecShares == InitShares /\ [][NextShares]_vars

\* the FREE_RESPONSE value of the rule of share i
ShareValue(i) == value(vRule.shares[i][1], vMarket, "FREE_RESPONSE")
Shares == 1..Len(vRule.shares)
AllMappings == \A i \in Shares : ShareValue(i).kind = "return" /\ IsMapping(ShareValue(i).val)

\* sum over the shares up to n of share weight times the rule's weight for key
RECURSIVE Owed(_, _)
Owed(key, n) ==
    IF n = 0 THEN FloatV(0, 1)
    ELSE FAdd(Owed(key, n - 1), FMul(vRule.shares[n][2], DefaultGet(ShareValue(n).val.pairs, key)))

\* the sum, over the shares up to n, of the share weight times the sum of the
\* weights of its rule's value
RECURSIVE OwedTotal(_)
OwedTotal(n) ==
    IF n = 0 THEN FloatV(0, 1)
    ELSE FAdd(OwedTotal(n - 1),
              FMul(vRule.shares[n][2],
                   FloatV(SumWeights(ShareValue(n).val.pairs)[1], SumWeights(ShareValue(n).val.pairs)[2])))

\* the result is a mapping whose weights sum to 1, every index holding its
\* part of the total
IsWeightedUnion(r) ==
    /\ r.kind = "return"
    /\ IsMapping(r.val)
    /\ SumWeights(r.val.pairs)[1] = SumWeights(r.val.pairs)[2]
    /\ \A j \in 1..Len(r.val.pairs) :
          NumEq(FMul(r.val.pairs[j][2], OwedTotal(Len(vRule.shares))),
                Owed(r.val.pairs[j][1], Len(vRule.shares)))
    /\ \A i \in Shares : \A j \in 1..Len(ShareValue(i).val.pairs) :
          \E n \in 1..Len(r.val.pairs) : r.val.pairs[n][1] = ShareValue(i).val.pairs[j][1]

-----------------------------------------------------------------------------
(* SpecFibonacci: FibonacciValueRule evaluated once on a market's answers *)

\* most answers of a market
MaxAnswers == 3

\* the probabilities of the answers
ProbabilityPool == { FloatV(0, 1), FloatV(1, 10), FloatV(3, 10), FloatV(6, 10) }

\* a market with its answers, the ids being "0", "1", ... in listing order
MarketWithAnswers(outcomeType, probabilities) ==
    [id |-> "m1", outcomeType |-> outcomeType, isResolved |-> FALSE,
     do_resolve_rules |-> <<>>, resolve_to_rules |-> <<>>,
     answers |-> [i \in 1..Len(probabilities) |->
                     [id |-> StrV(<<Digits[i]>>), probability |-> probabilities[i]]]]

InitFibonacci ==
    /\ vRule \in { FibonacciValueRule(exclude, floor) :
                     exclude \in SUBSET {0, 2}, floor \in {FloatV(1, 10000), FloatV(3, 10)} }
    /\ vFormat \in {"NONE", "FREE_RESPONSE"}
    /\ vMarket \in { MarketWithAnswers(t, ps) :
                       t \in {"FREE_RESPONSE", "BINARY"}, ps \in SeqsUpTo(ProbabilityPool, MaxAnswers) }
    /\ vResult = [by |-> "none"]
    /\ MarketIdle
    /\ ScanIdle
    /\ RandomIdle
    /\ ClockIdle
    /\ CacheIdle
    /\ DialogIdle

NextFibonacci == CallRawValue \/ CallRuleValue

SpecFibonacci == InitFibonacci /\ [][NextFibonacci]_vars

\* the answers (by place in the listing) that are neither excluded nor below
\* min_rewarded, and the probability of each
Remaining ==
    { i \in 1..Len(vMarket.answers) :
        /\ (i - 1) \notin vRule.exclude
        /\ ~NumLess(vMarket.answers[i].probability, vRule.min_rewarded) }
ProbabilityOf(i) == vMarket.answers[i].probability

\* the place of a remaining answer in ascending order of probability
PlaceOf(i) ==
    1 + Cardinality({ j \in Remaining :
                        \/ NumLess(ProbabilityOf(j), ProbabilityOf(i))
                        \/ (ProbabilityOf(j) = ProbabilityOf(i) /\ j < i) })

\* the Fibonacci numbers 1, 1, 2, 3, 5, ...
RECURSIVE Fib(_)
Fib(n) == IF n <= 2 THEN 1 ELSE Fib(n - 1) + Fib(n - 2)
RECURSIVE FibSum(_)
FibSum(n) == IF n = 0 THEN 0 ELSE Fib(n) + FibSum(n - 1)

\* C18: on a FREE_RESPONSE market that lists answers, the result of
\* FibonacciValueRule holds exactly the answers that are not excluded and not
\* below min_rewarded; the answer in place k of the ascending order of
\* probability has the weight Fib(k) divided by the sum of the Fibonacci numbers
\* handed out, so the weights sum to 1 and no answer outweighs the one in the
\* last place, which no remaining answer exceeds in probability
C18_FibonacciWeights ==
    (Asked /\ vMarket.outcomeType = "FREE_RESPONSE" /\ vMarket.answers # <<>>) =>
        /\ vResult.out.kind = "return"
        /\ IsMapping(vResult.out.val)
        /\ { vResult.out.val.pairs[n][1] : n \in 1..Len(vResult.out.val.pairs) } = { IntV(i - 1) : i \in Remaining }
        /\ Len(vResult.out.val.pairs) = Cardinality(Remaining)
        /\ \A i \in Remaining :
              /\ NumEq(DefaultGet(vResult.out.val.pairs, IntV(i - 1)),
                       FloatV(Fib(PlaceOf(i)), FibSum(Cardinality(Remaining))))
              /\ \A j \in Remaining :
                    PlaceOf(j) = Cardinality(Remaining) =>
                        /\ ~NumLess(ProbabilityOf(j), ProbabilityOf(i))
                        /\ ~NumLess(DefaultGet(vResult.out.val.pairs, IntV(j - 1)),
                                    DefaultGet(vResult.out.val.pairs, IntV(i - 1)))
        /\ Remaining # {} => SumWeights(vResult.out.val.pairs)[1] = SumWeights(vResult.out.val.pairs)[2]

\* three answers remain, listed in descending order of probability, and the
\* first listed holds half of the weight
C18_Witness ==
    /\ Asked
    /\ vMarket.outcomeType = "FREE_RESPONSE"
    /\ Cardinality(Remaining) = 3
    /\ NumLess(ProbabilityOf(3), ProbabilityOf(2)) /\ NumLess(ProbabilityOf(2), ProbabilityOf(1))
    /\ vResult.out.kind = "return"
    /\ DefaultGet(vResult.out.val.pairs, IntV(0)) = FloatV(1, 2)

-----------------------------------------------------------------------------
(* SpecDeadline: a market made with a deadline rule and nothing else *)

\* the largest offset of the local time zone from UTC, in hours
MaxOffset == 1

\* Market(market, do_resolve_rules=[...]): the dataclass gives the fields left
\* out their defaults, `resolve_to_rules: ... = field(default_factory=list)`
NewMarket(id, outcomeType, isResolved, do_resolve_rules) ==
    Market(id, outcomeType, isResolved, do_resolve_rules, <<>>)

\* the deadlines: aware or naive, before, at and after the clock's reading
Deadlines == { DateTime(h, a) : h \in 0..MaxTime, a \in BOOLEAN }

\* the clock does not move during the call: should_resolve and resolve_to are
\* over within the hour
InitDeadline ==
    /\ mkt \in { NewMarket("m1", t, r, <<ResolveAtTime(at)>>) :
                    t \in OUTCOMES, r \in BOOLEAN, at \in Deadlines }
    /\ CACHE \in BOOLEAN
    /\ CallIdle
    /\ table = <<>>
    /\ now \in 0..MaxTime
    /\ scan = [pc |-> "idle", error |-> None]
    /\ seen = NoResult
    /\ tz \in -MaxOffset..MaxOffset
    /\ ValueIdle
    /\ RandomIdle
    /\ CacheIdle
    /\ DialogIdle

NextDeadline ==
    \/ CallShouldResolve
    \/ CallResolveTo
    \/ \E i \in 1..Len(futures) : RunTask(i)
    \/ CollectShouldResolve
    \/ CollectResolveTo

SpecDeadline == InitDeadline /\ [][NextDeadline]_vars

\* the deadline of the market's only do-resolve rule
Deadline == mkt.do_resolve_rules[1].resolve_at

\* the deadline lies in the past: an aware one is an earlier instant, a naive
\* one an earlier reading of the local clock
Past(at) == IF at.aware THEN at.hours < now - tz ELSE at.hours < now

\* C19: a market made with do_resolve_rules = [ResolveAtTime(t)], t in the
\* past, and no resolve_to_rules answers True to should_resolve() at once, and
\* its resolve_to() returns a value (that of a default terminal rule) instead of
\* raising
C19_DeadlineDefault ==
    (pc = "done" /\ ~mkt.isResolved /\ Past(Deadline)) =>
        /\ op = "should_resolve" => result = Return(BoolV(TRUE))
        /\ op = "resolve_to" => result.kind = "return"

\* the half of C19 the code keeps: should_resolve() answers True at once
C19_ShouldResolveAtOnce ==
    (pc = "done" /\ op = "should_resolve" /\ ~mkt.isResolved /\ Past(Deadline)) =>
        result = Return(BoolV(TRUE))

-----------------------------------------------------------------------------
(* What an error does to the scan pass, checked under SpecScan *)

\* the pass selected a row that comes after the one the last iteration took
RowsRemain == \E id \in DOMAIN table : id > seen.id

\* C20: when evaluating or resolving one tracked market raises an error during
\* a scan pass (a failing external service, a failing rule, a failed resolve),
\* the loop goes on to the remaining tracked markets of the pass: the pass is
\* still in its loop, or it ended without an error.
C20_ScanContinues ==
    (RowSeen /\ seen.out.kind = "raise" /\ RowsRemain) =>
        (scan.pc = "loop" \/ scan.error = None)

-----------------------------------------------------------------------------
(* SpecGetRule: get_rule asked for one dotted name *)

\* most parts of a dotted name
MaxParts == 3

\* the parts a name is made of: modules of the rule package, modules outside
\* it, rule classes, other classes, functions, and a name nothing binds
NameParts ==
    {"generic", "abstract", "manifold", "this", "time", "random",
     "EitherRule", "ResolveToValue", "FibonacciValueRule", "Random", "datetime",
     "sleep", "urandom", "dataclass", "Missing"}

\* type_.split("."): at least one part
DottedNames == UNION { [1..k -> NameParts] : k \in 1..MaxParts }

InitGetRule ==
    /\ vRule \in DottedNames
    /\ vFormat = "NONE"
    /\ vMarket = Market("m1", "BINARY", FALSE, <<>>, <<>>)
    /\ vResult = [by |-> "none"]
    /\ MarketIdle
    /\ ScanIdle
    /\ RandomIdle
    /\ ClockIdle
    /\ CacheIdle
    /\ DialogIdle

\* get_rule(type_)
CallGetRule ==
    /\ vResult.by = "none"
    /\ vResult' = [by |-> "get_rule", out |-> get_rule(vRule)]
    /\ UNCHANGED <<vRule, vFormat, vMarket, marketVars, scanVars, randomVars, clockVars, cacheVars, dialogVars>>

NextGetRule == CallGetRule

SpecGetRule == InitGetRule /\ [][NextGetRule]_vars

GetRuleAsked == vResult.by = "get_rule"

\* the dotted name resolves, under the rule package, to a subclass of Rule
ResolvesToRule(type_) ==
    /\ SubSeq(type_, 1, Len(type_) - 1) \in DOMAIN RuleModules
    /\ type_[Len(type_)] \in RuleModules[SubSeq(type_, 1, Len(type_) - 1)].rules

\* C21 as stated: get_rule returns a class only if the dotted name resolves to
\* a subclass of Rule, and for every other name it raises NameError
C21_NameError ==
    GetRuleAsked =>
        IF ResolvesToRule(vRule)
        THEN vResult.out = Return(vRule[Len(vRule)])
        ELSE vResult.out.kind = "raise" /\ vResult.out.exc = "NameError"

\* C21, amended: get_rule returns the class exactly when the dotted name
\* resolves to a subclass of Rule; for every other name it raises and returns
\* nothing: NameError for a class that is no Rule, TypeError for an object that is
\* no class, AttributeError for a name the module does not bind, an import error
\* for a module that is not in the rule package (ValueError for a name without
\* a module part).
C21_RaisesUnlessRule ==
    GetRuleAsked =>
        IF ResolvesToRule(vRule)
        THEN vResult.out = Return(vRule[Len(vRule)])
        ELSE /\ vResult.out.kind = "raise"
             /\ vResult.out.exc \in {"NameError", "TypeError", "AttributeError",
                                     "ModuleNotFoundError", "ValueError"}
             /\ vResult.out.exc = "NameError" <=>
                   /\ SubSeq(vRule, 1, Len(vRule) - 1) \in DOMAIN RuleModules
                   /\ vRule[Len(vRule)] \in
                          RuleModules[SubSeq(vRule, 1, Len(vRule) - 1)].classes
             /\ vResult.out.exc \in {"ModuleNotFoundError", "ValueError"} <=>
                   SubSeq(vRule, 1, Len(vRule) - 1) \notin DOMAIN RuleModules

\* "abstract.Random" names a class that is no Rule: NameError; so asked,
\* "random.Random" is an import error
C21_Witness ==
    /\ GetRuleAsked
    /\ vRule = <<"abstract", "Random">>
    /\ vResult.out = Raise("NameError", <<>>)

-----------------------------------------------------------------------------
(* The frame of an evaluation, checked under SpecRandom *)

\* C22: evaluating a rule leaves the market snapshot and the rule node's own
\* parameters unchanged: no evaluation changes a field of a rule object or of
\* the snapshot, so after any sequence of evaluations they are as before the
\* first.
C22_FrameKept == [][objs' = objs /\ api' = api]_vars

-----------------------------------------------------------------------------
(* explain_specific and the external lookups it makes *)

ResolveWithPR(owner, repo, number) ==
    [kind |-> "ResolveWithPR", owner |-> owner, repo |-> repo, number |-> number]
OtherMarketValue(id_) == [kind |-> "OtherMarketValue", id_ |-> id_]

\* the calls made to the clients of the services, by what they fetch: the
\* issue (login().issue), the pull request (login().pull_request) and the
\* referenced market (client.get_market_by_id)
Lookups(issue, pr, market) == [issue |-> issue, pr |-> pr, market |-> market]
AddLookups(a, b) ==
    [issue |-> a.issue + b.issue, pr |-> a.pr + b.pr, market |-> a.market + b.market]

\* what a call did: the lookups it made and how it ended
Did(made, out) == [lookups |-> made, out |-> out]

\* `pr is not None and pr.merged`
Merged(pr) == BoolV(pr # None /\ pr.merged)

\* ResolveWithPR._value: both futures are made at once; a pool runs both, a
\* Deferred runs when its result is asked for, and the pull request's is asked
\* for only while the issue is open
ResolveWithPR_value(cache, github) ==
    Did(Lookups(1, IF cache \/ github.issue.state = "open" THEN 1 ELSE 0, 0),
        IF github.issue.state # "open" THEN Return(BoolV(TRUE))
        ELSE Return(Merged(github.pr)))

\* ResolveWithPR._explain_specific: its own two futures, self.value(market)
\* in the first line of the text, then the results of the two futures
ResolveWithPR_explain_specific(cache, github, val) ==
    Did(AddLookups(Lookups(1, 1, 0), val.lookups),
        Return(<<val.out.val, github.issue.state, Merged(github.pr)>>))

\* OtherMarketValue._value on a binary referenced market: one api_market()
OtherMarketValue_value(other) ==
    Did(Lookups(0, 0, 1),
        IF other.resolution = "CANCEL" THEN Return(CANCEL)
        ELSE PyMul(OtherMarketValue_binary_value(other), IntV(100)))

\* AmplifiedOddsRule._value with the lookup _binary_value makes when it is
\* given no market
AmplifiedOddsRule_value_did(self, other, drawn) ==
    Did(Lookups(0, 0, 1),
        AmplifiedOddsRule_value(self, OtherMarketValue_binary_value(other), drawn))

\* OtherMarketValue._explain_specific on a binary referenced market, val being
\* what self._value(market) did: f_api_market() is one more lookup; the value
\* shown must be "CANCEL" or a float
OtherMarketValue_explain_specific(other, val) ==
    Did(AddLookups(Lookups(0, 0, 1), val.lookups),
        IF val.out.kind = "raise" THEN val.out
        ELSE IF val.out.val = CANCEL THEN Return(<<CANCEL>>)
        ELSE IF val.out.val.tag # "float" THEN Raise("AssertionError", <<>>)
        ELSE Return(<<round_sig_figs(val.out.val, 4)>>))

\* AmplifiedOddsRule._explain_specific: f_val and other_exp are made at once;
\* a pool runs both, without it other_exp runs only if f_val.result() returned
AmplifiedOddsRule_explain_specific(cache, val, other_exp) ==
    IF val.out.kind = "raise"
    THEN Did(IF cache THEN AddLookups(val.lookups, other_exp.lookups) ELSE val.lookups, val.out)
    ELSE Did(AddLookups(val.lookups, other_exp.lookups),
             IF val.out.val # CANCEL /\ ~IsNumber(val.out.val) THEN Raise("TypeError", <<>>)
             ELSE IF other_exp.out.kind = "raise" THEN other_exp.out
             ELSE Return(<<IF val.out.val = CANCEL THEN CANCEL
                           ELSE round_sig_figs(val.out.val, 4)>> \o other_exp.out.val))

\* node.explain_specific(market); without the environment variables of the
\* clients the first lookup raises before it is made
explain_specific(node, cache, hasEnv, g, remote) ==
    IF ~hasEnv THEN Did(Lookups(0, 0, 0), require_env(hasEnv))
    ELSE CASE node.kind = "ResolveWithPR" ->
                ResolveWithPR_explain_specific(cache, remote, ResolveWithPR_value(cache, remote))
           [] node.kind = "OtherMarketValue" ->
                OtherMarketValue_explain_specific(remote.other, OtherMarketValue_value(remote.other))
           [] node.kind = "AmplifiedOddsRule" ->
                AmplifiedOddsRule_explain_specific(cache,
                    AmplifiedOddsRule_value_did(node, remote.other, ResolveRandomSeed_value(g, node)),
                    OtherMarketValue_explain_specific(remote.other,
                        AmplifiedOddsRule_value_did(node, remote.other,
                                                    ResolveRandomSeed_value(g, node))))

-----------------------------------------------------------------------------
(* SpecExplain: explain_specific asked of one node *)

ExplainedNodes ==
    { ResolveWithPR("owner", "repo", 1), OtherMarketValue("other") }
    \cup { AmplifiedOddsRule(1, k, a, "other") : a \in {1, 100}, k \in 1..MaxRounds }

\* what GitHub shows: the issue open or closed, the pull request absent,
\* unmerged or merged
GitHubStates ==
    { [issue |-> [state |-> s], pr |-> p] :
        s \in {"open", "closed"}, p \in {None, [merged |-> FALSE], [merged |-> TRUE]} }

InitExplain ==
    /\ vRule \in ExplainedNodes
    /\ vFormat = "NONE"
    /\ vMarket = Market("m1", "BINARY", FALSE, <<>>, <<>>)
    /\ vResult = [by |-> "none"]
    /\ mkt = Market("m1", "BINARY", FALSE, <<>>, <<>>)
    /\ CACHE \in BOOLEAN
    /\ CallIdle
    /\ gen \in { g \in [Seeds -> [1..MaxRounds -> RawDraws]] :
                    \A s \in Seeds \ {1} : g[s] = [k \in 1..MaxRounds |-> 0] }
    /\ objs = <<>>
    /\ returned = <<>>
    /\ api \in { [other |-> o, issue |-> h.issue, pr |-> h.pr] :
                    o \in OtherMarkets, h \in GitHubStates }
    /\ ScanIdle
    /\ ClockIdle
    /\ CacheIdle
    /\ DialogIdle

\* node.explain_specific(market)
CallExplainSpecific ==
    /\ vResult.by = "none"
    /\ \E hasEnv \in BOOLEAN :
          vResult' = [by |-> "explain_specific", hasEnv |-> hasEnv,
                      did |-> explain_specific(vRule, CACHE, hasEnv, gen, api)]
    /\ UNCHANGED <<vRule, vFormat, vMarket, marketVars, scanVars, randomVars, clockVars, cacheVars, dialogVars>>

NextExplain == CallExplainSpecific

SpecExplain == InitExplain /\ [][NextExplain]_vars

\* C23: one call of explain_specific on a node performs each of the node's
\* external lookups (the referenced market, the issue, the pull request) at
\* most once.
C23_LookupsOnce ==
    vResult.by = "explain_specific" =>
        /\ vResult.did.lookups.issue <= 1
        /\ vResult.did.lookups.pr <= 1
        /\ vResult.did.lookups.market <= 1

-----------------------------------------------------------------------------
(* util.time_cache around OtherMarketValue._value, and the cache of GET
   responses under it *)

\* time_cache(seconds=30), in ticks
Seconds == 2
\* requests_cache.install_cache(expire_after=360), in ticks
ExpireAfter == 24
\* the last tick of the monotonic clock
MaxClock == 8
\* most calls of the memoized _value in one run
MaxLookups == 3

\* time_cache_state.get(key, (None, 0))
CacheEntry(entries, key) == IF key \in DOMAIN entries THEN entries[key] ELSE <<None, 0>>

\* `if cached_time + seconds < t`: the wrapped function is called again
Expired(entry, t) == entry[2] + Seconds < t

\* key = (id(self or func), _make_key(args, kwargs, False)): the node object
\* and the market it is asked about
CacheKey(node, market) == <<node, market.id>>

\* self.api_market(): client.get_market_by_id, a GET; with caching.CACHE set
\* requests_cache answers it from the response it holds until that expires
api_market(cache, held, remote, t) ==
    IF cache /\ held # None /\ t < held.time + ExpireAfter
    THEN [response |-> held.response, http |-> held, fetched |-> FALSE]
    ELSE [response |-> remote, fetched |-> TRUE,
          http |-> IF cache THEN [response |-> remote, time |-> t] ELSE held]

\* one call of the memoized _value, as the lookups variable keeps it
Looked(node, t, called, fetched, out) ==
    [node |-> node, t |-> t, called |-> called, fetched |-> fetched, out |-> out]

-----------------------------------------------------------------------------
(* SpecTimeCache: two sibling nodes that reference the same market are
   evaluated while time passes and the referenced market moves *)

\* the sibling node objects, by id(self)
SiblingNodes == {1, 2}

\* the referenced market as the service shows it
MovingMarkets ==
    { APIMarket(FALSE, "None", None, FloatV(1, 100)), APIMarket(FALSE, "None", None, FloatV(1, 2)),
      APIMarket(TRUE, "YES", None, FloatV(9, 10)) }

InitTimeCache ==
    /\ monotonic \in {Seconds + 1, Seconds + 2}
    /\ time_cache_state = <<>>
    /\ http = None
    /\ lookups = <<>>
    /\ mkt = Market("m1", "BINARY", FALSE, <<>>, <<>>)
    /\ CACHE \in BOOLEAN
    /\ CallIdle
    /\ gen = <<>>
    /\ objs = <<>>
    /\ returned = <<>>
    /\ api \in { [other |-> o] : o \in MovingMarkets }
    /\ ValueIdle
    /\ ScanIdle
    /\ ClockIdle
    /\ DialogIdle

\* node._value(market) through the wrapper time_cache makes
Lookup(node) ==
    /\ Len(lookups) < MaxLookups
    /\ LET key == CacheKey(node, mkt)
           entry == CacheEntry(time_cache_state, key)
       IN  IF Expired(entry, monotonic)
           THEN LET got == api_market(CACHE, http, api.other, monotonic)
                    val == OtherMarketValue_value(got.response).out
                IN  /\ http' = got.http
                    /\ time_cache_state' =
                          IF val.kind = "raise" THEN time_cache_state
                          ELSE [k \in DOMAIN time_cache_state \cup {key} |->
                                   IF k = key THEN <<val.val, monotonic>>
                                   ELSE time_cache_state[k]]
                    /\ lookups' = Append(lookups,
                                         Looked(node, monotonic, TRUE, got.fetched, val))
           ELSE /\ lookups' = Append(lookups,
                                     Looked(node, monotonic, FALSE, FALSE, Return(entry[1])))
                /\ UNCHANGED <<time_cache_state, http>>
    /\ UNCHANGED <<monotonic, valueVars, marketVars, scanVars, randomVars, clockVars, dialogVars>>

\* fifteen seconds pass
Elapse ==
    /\ monotonic < MaxClock
    /\ monotonic' = monotonic + 1
    /\ UNCHANGED <<time_cache_state, http, lookups, valueVars, marketVars, scanVars,
                   randomVars, clockVars, dialogVars>>

\* the referenced market moves, or resolves
RemoteMoves ==
    /\ \E o \in MovingMarkets \ {api.other} : api' = [api EXCEPT !.other = o]
    /\ UNCHANGED <<gen, objs, returned, valueVars, marketVars, scanVars, clockVars, cacheVars, dialogVars>>

NextTimeCache == (\E n \in SiblingNodes : Lookup(n)) \/ Elapse \/ RemoteMoves

SpecTimeCache == InitTimeCache /\ [][NextTimeCache]_vars

\* the last lookup before the j-th that went to the service
RECURSIVE LastFetch(_)
LastFetch(j) ==
    IF j <= 1 THEN 0
    ELSE IF lookups[j - 1].fetched THEN j - 1
    ELSE LastFetch(j - 1)

\* C24: when the same referenced market is looked up repeatedly within the
\* TTL, by the same node or by a sibling node, only the first lookup goes to
\* the service and the later ones return what the first returned; once the TTL
\* has elapsed the next lookup goes to the service again.
C24_MemoizedForTTL ==
    \A j \in 1..Len(lookups) :
        IF LastFetch(j) = 0 THEN lookups[j].fetched
        ELSE IF lookups[j].t <= lookups[LastFetch(j)].t + Seconds
        THEN ~lookups[j].fetched /\ lookups[j].out = lookups[LastFetch(j)].out
        ELSE lookups[j].fetched

-----------------------------------------------------------------------------
(* The order of do_resolve_rules, checked under SpecShouldResolve *)

\* the orders in which a list of n rules can be written
Orders(n) == { p \in [1..n -> 1..n] : \A i, j \in 1..n : p[i] = p[j] => i = j }

\* the market with its do_resolve_rules written in the order p
Reordered(m, p) ==
    [m EXCEPT !.do_resolve_rules = [i \in 1..Len(m.do_resolve_rules) |->
                                       m.do_resolve_rules[p[i]]]]

\* C25: should_resolve gives the same outcome, the same boolean or the same
\* raised error, for every permutation of do_resolve_rules and for every order
\* in which the concurrent evaluations finish.
C25_OrderFree ==
    ShouldResolveDone =>
        \A p \in Orders(Len(mkt.do_resolve_rules)) :
            result = should_resolve(Reordered(mkt, p))

-----------------------------------------------------------------------------
(* Removal of tracked-market records, checked under SpecScan *)

\* the iteration last run set the market's isResolved flag
ResolvedNow(row) == Count(row.log, "isResolved") > 0

\* the iteration last run went through with a market that was resolved already
FoundResolved(row) == row.due /\ row.market.isResolved /\ row.out.kind = "return"

\* C26: a scan pass removes a record only when its market is marked resolved;
\* after an iteration in which the market was resolved or cancelled, or was
\* found resolved already while being checked, the record is no longer in the
\* table, and the update of last_checked that follows does not bring it back.
C26_RemovedWhenResolved ==
    [][ /\ \A id \in (DOMAIN table) \ (DOMAIN table') :
              /\ seen'.id = id
              /\ seen'.market.isResolved \/ ResolvedNow(seen')
        /\ (DOMAIN table') \subseteq (DOMAIN table)
        /\ (seen' # NoResult /\ (ResolvedNow(seen') \/ FoundResolved(seen'))) =>
              seen'.id \notin DOMAIN table'
      ]_vars

-----------------------------------------------------------------------------
(* SpecLoop: loop_command runs main() again and again, sleeping in between.
   Here scan holds where loop_command is and seen holds, for every row, the
   time at which should_resolve was last called for its market. *)

\* `times` of loop_command: the last value of i for which a pass runs
MaxPasses == 4

\* the scan periods, in hours, and the check rates of the rows
Periods == {1, 2}
CheckRates == {1, 2}

\* the rows at the start: open markets whose rules abstain, say no, or say yes
\* to an operator who then declines; never checked so far
LoopRows(id) ==
    { [market |-> Market(id, "BINARY", FALSE, <<do>>, <<ResolveToValue(IntV(3))>>),
       check_rate |-> c, last_checked |-> None] :
        do \in { ResolveToValue(None), ResolveToValue(BoolV(FALSE)), ResolveToValue(BoolV(TRUE)) },
        c \in CheckRates }

InitLoop ==
    /\ \E ids \in (SUBSET TrackedIds) \ {{}} :
          /\ table \in { t \in [ids -> UNION { LoopRows(i) : i \in ids }] :
                           \A i \in ids : t[i] \in LoopRows(i) }
          /\ seen = [i \in ids |-> None]
    /\ now = 0
    /\ \E p \in Periods, refresh \in BOOLEAN :
          scan = [pc |-> "run", i |-> 0, period |-> p, refresh |-> refresh,
                  rows |-> <<>>, pos |-> 0]
    /\ MarketIdle
    /\ ValueIdle
    /\ RandomIdle
    /\ ClockIdle
    /\ CacheIdle
    /\ DialogIdle

\* run_command(**kwargs): main is called and selects the rows
RunCommand ==
    /\ scan.pc = "run"
    /\ scan' = [scan EXCEPT !.pc = "loop", !.rows = RowsOf(DOMAIN table), !.pos = 1]
    /\ UNCHANGED <<table, now, seen, valueVars, marketVars, randomVars, clockVars, cacheVars,
                   dialogVars>>

\* what an iteration of the loop of main leaves when it ended as r says: an
\* error ends main and loop_command with it
LoopLeaves(id, due, r) ==
    /\ seen' = IF due THEN [seen EXCEPT ![id] = Time(now)] ELSE seen
    /\ table' = IF r.out.kind = "raise" THEN table
                ELSE IF r.deleted THEN Delete(table, id)
                ELSE Update(table, id, r.market, Time(now))
    /\ scan' = IF r.out.kind = "raise" THEN [scan EXCEPT !.pc = "done"]
               ELSE [scan EXCEPT !.pos = scan.pos + 1]

\* one iteration of the loop of main, with an operator who answers NO_ACTION
LoopRow ==
    /\ scan.pc = "loop"
    /\ scan.pos <= Len(scan.rows)
    /\ IF Due(table[scan.rows[scan.pos]], scan.refresh, now)
       THEN LoopLeaves(scan.rows[scan.pos], TRUE,
                       main_row(table[scan.rows[scan.pos]], "NO_ACTION", TRUE, TRUE, TRUE))
       ELSE LoopLeaves(scan.rows[scan.pos], FALSE,
                       Scanned(table[scan.rows[scan.pos]].market, Return(None), <<>>, "none",
                               FALSE))
    /\ UNCHANGED <<now, valueVars, marketVars, randomVars, clockVars, cacheVars, dialogVars>>

\* conn.close() after the last row; main returns
EndPass ==
    /\ scan.pc = "loop"
    /\ scan.pos > Len(scan.rows)
    /\ scan' = [scan EXCEPT !.pc = "sleep"]
    /\ UNCHANGED <<table, now, seen, valueVars, marketVars, randomVars, clockVars, cacheVars,
                   dialogVars>>

\* sleep(period * 60), then the next i: `if i > times: break`
Sleep ==
    /\ scan.pc = "sleep"
    /\ now' = now + scan.period
    /\ scan' = [scan EXCEPT !.i = scan.i + 1,
                            !.pc = IF scan.i + 1 > MaxPasses THEN "done" ELSE "run"]
    /\ UNCHANGED <<table, seen, valueVars, marketVars, randomVars, clockVars, cacheVars, dialogVars>>

NextLoop == RunCommand \/ LoopRow \/ EndPass \/ Sleep

SpecLoop == InitLoop /\ [][NextLoop]_vars

\* C27: while passes keep running and a tracked market stays unresolved,
\* should_resolve is called for it again no later than check_rate hours plus
\* one scan period after its previous evaluation, whatever the period is.
C27_EvaluatedAgain ==
    (scan.pc = "sleep") =>
        \A id \in DOMAIN table :
            /\ seen[id] # None
            /\ now - seen[id].hours <= table[id].check_rate + scan.period

-----------------------------------------------------------------------------
(* application.tg_main and its callback handler application.buttons *)

\* tg_main calls in one run, callback queries on their way at once, and
\* callback queries the handler takes during one tg_main
MaxCalls == 2
MaxPending == 2
MaxHandled == 3

\* consts.Response, by value
Response == <<"NO_ACTION", "USE_DEFAULT", "CANCEL">>

\* callback_data of the buttons of keyboard1 and keyboard2, as query.data
\* carries it: the Response values as decimal text, "YES" and "NO"
keyboard1 == { <<"1">>, <<"2">>, <<"3">> }
keyboard2 == { <<"Y", "E", "S">>, <<"N", "O">> }
YES == <<"Y", "E", "S">>
NO == <<"N", "O">>

\* the buttons under a message
ButtonsOf(markup) ==
    IF markup = "keyboard1" THEN keyboard1
    ELSE IF markup = "keyboard2" THEN keyboard2
    ELSE {}

\* what the handler leaves: the State object, the markup of the message the
\* query came from, and whether it stopped the event loop
Handled(st, markup, stopped) == [state |-> st, markup |-> markup, stopped |-> stopped]

\* application.buttons for a query with `data`, sent from a message that showed
\* `markup`: edit_message_text takes the keyboard off the message,
\* edit_message_reply_markup puts one under it
buttons(st, data, markup) ==
    IF data \in {YES, NO}
    THEN IF data # YES
         THEN Handled([st EXCEPT !.last_text = Append(st.last_text, data)], "keyboard1", FALSE)
         ELSE Handled([st EXCEPT !.last_text = Append(st.last_text, data)], "none", TRUE)
    ELSE Handled([st EXCEPT !.last_response = Response[IntOfStr(data).val.n],
                            !.last_text = Append(st.last_text, <<"S">> \o data)],
                 "keyboard2", FALSE)

-----------------------------------------------------------------------------
(* SpecDialog: tg_main is called for one market after the other while the
   operator presses buttons *)

InitDialog ==
    /\ DialogIdle
    /\ ValueIdle
    /\ MarketIdle
    /\ ScanIdle
    /\ RandomIdle
    /\ ClockIdle
    /\ CacheIdle

\* tg_main(text) up to run_polling: last_text is set, last_response is left as
\* it is, and post_init sends the message with keyboard1
TgMain ==
    /\ tg.pc = "idle"
    /\ tg.call < MaxCalls
    /\ tg' = [pc |-> "polling", call |-> tg.call + 1, handled |-> <<>>, returned |-> None]
    /\ state' = [state EXCEPT !.last_text = << <<"t">> >>]
    /\ chat' = [chat EXCEPT !.keyboards = Append(chat.keyboards, "keyboard1")]
    /\ UNCHANGED <<valueVars, marketVars, scanVars, randomVars, clockVars, cacheVars>>

\* the operator presses a button that some message shows; the query is on its
\* way until the bot polls for it
Press ==
    /\ Len(chat.pending) < MaxPending
    /\ \E k \in 1..Len(chat.keyboards) : \E data \in ButtonsOf(chat.keyboards[k]) :
          chat' = [chat EXCEPT !.pending = Append(chat.pending, [message |-> k, data |-> data])]
    /\ UNCHANGED <<state, tg, valueVars, marketVars, scanVars, randomVars, clockVars, cacheVars>>

\* run_polling hands the next callback query to buttons; when the handler has
\* stopped the event loop tg_main returns state.last_response
Buttons ==
    /\ tg.pc = "polling"
    /\ chat.pending # <<>>
    /\ Len(tg.handled) < MaxHandled
    /\ LET query == Head(chat.pending)
           did == buttons(state, query.data, chat.keyboards[query.message])
       IN  /\ state' = did.state
           /\ chat' = [keyboards |-> [chat.keyboards EXCEPT ![query.message] = did.markup],
                       pending |-> Tail(chat.pending)]
           /\ tg' = [tg EXCEPT !.handled = Append(tg.handled, query.data),
                               !.pc = IF did.stopped THEN "idle" ELSE "polling",
                               !.returned = IF did.stopped THEN did.state.last_response
                                            ELSE None]
    /\ UNCHANGED <<valueVars, marketVars, scanVars, randomVars, clockVars, cacheVars>>

NextDialog == TgMain \/ Press \/ Buttons

SpecDialog == InitDialog /\ [][NextDialog]_vars

\* the callback data that selects the response r
DataOf(r) == CHOOSE data \in keyboard1 : Response[IntOfStr(data).val.n] = r

\* C28: tg_main returns a response R only if, during that same invocation,
\* the operator selected R and then answered YES to the prompt that followed;
\* an answer of NO puts the option menu back and does not end the dialog; a
\* response selected during an earlier invocation is never returned.
C28_ConfirmedInThisCall ==
    [][ /\ (tg.pc = "polling" /\ tg'.pc = "idle") =>
              /\ tg'.handled[Len(tg'.handled)] = YES
              /\ \E i \in 1..(Len(tg'.handled) - 1) :
                    /\ tg'.handled[i] = DataOf(tg'.returned)
                    /\ \A j \in (i + 1)..Len(tg'.handled) : tg'.handled[j] \in {YES, NO}
        /\ (tg.pc = "polling" /\ Len(tg'.handled) > Len(tg.handled)
              /\ Head(chat.pending).data = NO) =>
              /\ tg'.pc = "polling"
              /\ chat'.keyboards[Head(chat.pending).message] = "keyboard1"
      ]_vars

-----------------------------------------------------------------------------
(* from_dict of the rules with a list of children, and of Market *)

\* most entries of a serialized list of children, and calls of from_dict on
\* the same data
MaxEntries == 2
MaxDeserialized == 2

\* an entry [type_, kwargs] of serialized data
Pair(type_, kwargs) == [tag |-> "pair", type_ |-> type_, kwargs |-> kwargs]

\* what a from_dict leaves: the dictionary it was handed, as the caller sees
\* it afterwards, and the outcome
Built(env, out) == [env |-> env, out |-> out]

\* `type_, kwargs = entry`, then get_rule(type_).from_dict(kwargs): an entry
\* that is no pair cannot be unpacked
FromEntry(entry) ==
    IF ~("tag" \in DOMAIN entry /\ entry.tag = "pair") THEN Raise("TypeError", <<>>)
    ELSE IF get_rule(entry.type_).kind = "raise" THEN get_rule(entry.type_)
    ELSE from_dict(get_rule(entry.type_).val, entry.kwargs)

\* the loop of VariadicRule.from_dict from index `at` on, the entry there giving
\* `built`: env_copy["rules"] is the list of env itself, so every built rule is
\* written into the caller's list
RECURSIVE VariadicRule_from_dict_loop(_, _, _)
VariadicRule_from_dict_loop(arr, at, built) ==
    IF built.kind = "raise" THEN Built(arr, built)
    ELSE IF at = Len(arr) THEN Built([arr EXCEPT ![at] = built.val], Return(None))
    ELSE VariadicRule_from_dict_loop([arr EXCEPT ![at] = built.val], at + 1,
                                     FromEntry(arr[at + 1]))

\* cls(**env_copy) after the loop ended as `looped` says
VariadicRule_from_dict_end(cls, looped) ==
    Built([rules |-> looped.env],
          IF looped.out.kind = "raise" THEN looped.out
          ELSE Return([kind |-> cls, rules |-> looped.env]))

\* VariadicRule.from_dict
VariadicRule_from_dict(cls, env) ==
    IF env.rules = <<>> THEN Built(env, Return([kind |-> cls, rules |-> <<>>]))
    ELSE VariadicRule_from_dict_end(cls,
             VariadicRule_from_dict_loop(env.rules, 1, FromEntry(env.rules[1])))

\* the loop of ResolveMultipleValues.from_dict: a share whose rule cannot be
\* built is passed over (`except Exception: pass`)
RECURSIVE NewShares(_, _, _)
NewShares(shares, at, acc) ==
    IF at > Len(shares) THEN acc
    ELSE IF FromEntry(shares[at][1]).kind = "raise" THEN NewShares(shares, at + 1, acc)
    ELSE NewShares(shares, at + 1,
                   Append(acc, <<FromEntry(shares[at][1]).val, shares[at][2]>>))

\* ResolveMultipleValues.from_dict
ResolveMultipleValues_from_dict(env) ==
    Built(env, Return(ResolveMultipleValues(NewShares(env.shares, 1, <<>>))))

\* `rules[idx] = get_rule(type_).from_dict(kwargs)` over a list of Market's
\* dictionary, into a new list; the first error comes out
RECURSIVE RulesOf(_, _, _)
RulesOf(arr, at, acc) ==
    IF at > Len(arr) THEN Return(acc)
    ELSE IF FromEntry(arr[at]).kind = "raise" THEN FromEntry(arr[at])
    ELSE RulesOf(arr, at + 1, Append(acc, FromEntry(arr[at]).val))

\* Market(**env_copy) once both lists are built
Market_from_dict_end(env, do, to) ==
    Built(env,
          IF do.kind = "raise" THEN do
          ELSE IF to.kind = "raise" THEN to
          ELSE Return([kind |-> "Market", do_resolve_rules |-> do.val,
                       resolve_to_rules |-> to.val]))

\* Market.from_dict
Market_from_dict(env) ==
    Market_from_dict_end(env, RulesOf(env.do_resolve_rules, 1, <<>>),
                         RulesOf(env.resolve_to_rules, 1, <<>>))

\* cls.from_dict(env) for the classes above
from_dict_of(cls, env) ==
    CASE cls = "ResolveMultipleValues" -> ResolveMultipleValues_from_dict(env)
      [] cls = "Market" -> Market_from_dict(env)
      [] OTHER -> VariadicRule_from_dict(cls, env)

-----------------------------------------------------------------------------
(* SpecFromDict: the same serialized data is deserialized, and then
   deserialized again.  Here `given` is the data as the caller holds it and
   `log` the outcomes of the calls so far. *)

\* serialized children: two constants, and a name no module binds
Entries ==
    { Pair(<<"generic", "ResolveToValue">>, [resolve_value |-> IntV(3)]),
      Pair(<<"generic", "ResolveToValue">>, [resolve_value |-> BoolV(TRUE)]),
      Pair(<<"generic", "NoSuchRule">>, [resolve_value |-> IntV(3)]) }

Serialized ==
    { [cls |-> c, env |-> [rules |-> arr]] :
        c \in {"AdditiveRule", "MultiplicitiveRule"}, arr \in SeqsUpTo(Entries, MaxEntries) }
    \cup { [cls |-> "ResolveMultipleValues",
            env |-> [shares |-> [i \in 1..Len(arr) |-> <<arr[i], IntV(i)>>]]] :
             arr \in SeqsUpTo(Entries, MaxEntries) }
    \cup { [cls |-> "Market", env |-> [do_resolve_rules |-> do, resolve_to_rules |-> to]] :
             do \in SeqsUpTo(Entries, MaxEntries), to \in SeqsUpTo(Entries, 1) }

InitFromDict ==
    /\ given \in Serialized
    /\ op = "none" /\ pc = "idle" /\ futures = <<>> /\ idx = 0 /\ completed = <<>>
    /\ result = NoResult /\ log = <<>>
    /\ mkt = Market("m1", "BINARY", FALSE, <<>>, <<>>)
    /\ CACHE = TRUE
    /\ ValueIdle
    /\ ScanIdle
    /\ RandomIdle
    /\ ClockIdle
    /\ CacheIdle
    /\ DialogIdle

\* cls.from_dict(env) with the dictionary the caller holds
CallFromDict ==
    /\ Len(log) < MaxDeserialized
    /\ LET did == from_dict_of(given.cls, given.env)
       IN  /\ given' = [given EXCEPT !.env = did.env]
           /\ result' = did.out
           /\ log' = Append(log, did.out)
    /\ op' = "from_dict"
    /\ UNCHANGED <<mkt, CACHE, pc, futures, idx, completed, valueVars, scanVars, randomVars,
                   clockVars, cacheVars, dialogVars>>

NextFromDict == CallFromDict

SpecFromDict == InitFromDict /\ [][NextFromDict]_vars

\* the children the data lists, and the children of the object built
Listed(data) ==
    CASE data.cls = "ResolveMultipleValues" -> <<Len(data.env.shares)>>
      [] data.cls = "Market" -> <<Len(data.env.do_resolve_rules), Len(data.env.resolve_to_rules)>>
      [] OTHER -> <<Len(data.env.rules)>>
ChildrenOf(obj) ==
    CASE obj.kind = "ResolveMultipleValues" -> <<Len(obj.shares)>>
      [] obj.kind = "Market" -> <<Len(obj.do_resolve_rules), Len(obj.resolve_to_rules)>>
      [] OTHER -> <<Len(obj.rules)>>

\* C29: from_dict leaves its serialized input unchanged and builds a node for
\* every listed child, so that deserializing the same data twice yields two
\* equal rule trees.
C29_InputKept ==
    [][ op' = "from_dict" =>
          /\ given' = given
          /\ result'.kind = "return" => ChildrenOf(result'.val) = Listed(given)
          /\ Len(log') = 2 => log'[2] = log'[1]
      ]_vars

-----------------------------------------------------------------------------
(* The explanatory comment, checked under SpecResolve *)

\* a resolve() that returned after the service took its outcome
ResolveSucceeded ==
    /\ op = "resolve" /\ result.kind = "return"
    /\ Count(log, "resolve_market") = 1

\* the argument of the event `name` of the last call
ArgOf(name) == log[CHOOSE i \in Places(log, name) : TRUE].arg

\* C30: for every successful call of Market.resolve, with or without an
\* override, the Final Value of the comment the after_resolve listener posts
\* is the outcome that was passed to the external resolve action.
C30_FinalValueIsOutcome ==
    ResolveSucceeded =>
        /\ Count(log, "create_comment") = 1
        /\ Return(ArgOf("create_comment")) = format_resolve_to(Return(ArgOf("resolve_market")), mkt)

====
